---- MODULE Spec2Model ----
(***************************************************************************)
(* Contract-backed entity synchronization layer of the Tribes client:      *)
(* event readers (getEvent, eventExists, getAllEvents), the createEvent    *)
(* write with identifier extraction, and the post composer (getAllPosts).  *)
(* The ledger is an external store; every call to it either answers or     *)
(* fails in transport.                                                     *)
(***************************************************************************)
EXTENDS Integers, Sequences, FiniteSets, TLC

VARIABLES
    ledger,   \* the EventController `events` mapping: slot index -> raw tuple
    pc,       \* the operation in progress ("idle" when none)
    ge,       \* the last getEvent call: id, ledger response, outcome
    ex,       \* the last eventExists call: id, ledger response, outcome
    scan,     \* the getAllEvents call: loop counter, result so far, fetch log
    ce,       \* the createEvent call: position, transaction sent, receipt logs, outcome
    postIdsByTribe, \* the PostMinter listing: tribe id -> post ids
    gap,      \* the getAllPosts call: loop position, fetchPromises, outcome
    store,    \* the PostMinter posts written by createPost: post id -> tuple
    cp,       \* the createTextPost / createImagePost call: metadata, tx, outcome
    gp,       \* the last getPost call on the written posts
    tribeLedger, \* the TribeController tribes: entry i + 1 is tribe id i
    gat,      \* the getAllTribes call: count, tribePromises, outcome
    profiles, \* the ProfileNFTMinter tokens: entry i + 1 is token id i
    rd,       \* the last call of getUserEvents, getTicketBalance,
              \* checkUsername or getProfileByAddress
    ctx,      \* the providers' state: provider, signer, isConnected, account,
              \* isOrganizer, and the cached profile
    act,      \* the context write action in progress: name, arguments,
              \* position, outcome
    calls,    \* the ledger calls the write action has issued, in order
    form,     \* the CreateTribeForm: its fields, isSubmitting, error, and
              \* the createNewTribe calls it has started
    rf        \* the providers' loading flags and the checkOrganizerRole and
              \* refresh calls in flight, in the order they were started

vars == <<ledger, pc, ge, ex, scan, ce, postIdsByTribe, gap, store, cp, gp,
          tribeLedger, gat, profiles, rd, ctx, act, calls, form,
          rf>>
eventVars == <<ledger, pc, ge, ex, scan, ce>>
postVars == <<postIdsByTribe, gap>>
writeVars == <<store, cp, gp>>
tribeVars == <<tribeLedger, gat>>
ctxVars == <<profiles, ctx, act, calls, form, rf>>
notWriteVars == <<eventVars, postVars, tribeVars, ctxVars, rd>>
notTribeVars == <<eventVars, postVars, writeVars, ctxVars, rd>>
\* the variables of the subsystems other than the event and post readers
extVars == <<writeVars, tribeVars, ctxVars, rd>>

(***************************************************************************)
(* Bounds of the model.                                                    *)
(***************************************************************************)
\* populated slots of the ledger's events mapping
MaxSlots == 3
\* largest maxEvents argument passed to getAllEvents
MaxEventsArg == 5
\* longest receipt log list
MaxLogs == 3
\* tribes on the ledger (ids 0 .. MaxTribes-1)
MaxTribes == 3
\* latest clock reading (new Date()) while a post is decoded
MaxClock == 1

(***************************************************************************)
(* Values.                                                                 *)
(***************************************************************************)
\* JavaScript null
Null == [isNull |-> TRUE]
\* a response of a ledger read: the decoded value, or a transport failure
\* (safeContractCall throws)
Answer(data) == [ok |-> TRUE, data |-> data]
Fail == [ok |-> FALSE, data |-> <<>>]

Zeros(n) == [i \in 1 .. n |-> 0]

\* number.toString(): the decimal digits of a natural, most significant first
toString(n) ==
    LET len == CHOOSE k \in 1 .. 9 : n < 10 ^ k /\ (k = 1 \/ n >= 10 ^ (k - 1))
    IN  [i \in 1 .. len |-> (n \div (10 ^ (len - i))) % 10]

\* ethers' unit of formatEther / parseEther: 18 decimals
EtherDecimals == 18

\* a digit string without its leading zeros (the last digit always stays)
StripLeadingZeros(d) ==
    LET first == CHOOSE k \in 1 .. Len(d) :
                    /\ (d[k] # 0 \/ k = Len(d))
                    /\ \A j \in 1 .. (k - 1) : d[j] = 0
    IN  SubSeq(d, first, Len(d))

\* a digit string without its trailing zeros (the first digit always stays)
StripTrailingZeros(d) ==
    LET last == CHOOSE k \in 1 .. Len(d) :
                   /\ (d[k] # 0 \/ k = 1)
                   /\ \A j \in (k + 1) .. Len(d) : d[j] = 0
    IN  SubSeq(d, 1, last)

\* ethers.formatEther(wei): wei is a bigint given by its decimal digits; the
\* result is the decimal string whole "." frac with at least one digit on
\* each side and no other leading or trailing zeros.
FormatEther(wei) ==
    LET padded == IF Len(wei) <= EtherDecimals
                  THEN Zeros(EtherDecimals + 1 - Len(wei)) \o wei
                  ELSE wei
        cut == Len(padded) - EtherDecimals
    IN  [whole |-> StripLeadingZeros(SubSeq(padded, 1, cut)),
         frac  |-> StripTrailingZeros(SubSeq(padded, cut + 1, Len(padded)))]

\* ethers.parseEther(str): the wei amount of a decimal string
ParseEther(str) ==
    StripLeadingZeros(str.whole \o str.frac
                      \o Zeros(EtherDecimals - Len(str.frac)))

OneEther == <<1>> \o Zeros(EtherDecimals)
OneAndHalfEther == <<1, 5>> \o Zeros(EtherDecimals - 1)

ZeroAddress == "0x0000"

\* Raw tuples of the `events` getter:
\* <<metadataURI, organizer, maxTickets, ticketsSold, price (wei), active>>
ZeroTuple == <<"", ZeroAddress, 0, 0, <<0>>, FALSE>>

RawTuples ==
    { ZeroTuple,
      <<"{title:A}", "0xAbC1", 2, 1, OneEther, TRUE>>,
      <<"{title:B}", "0xdEf2", 1, 0, <<1>>, FALSE>>,
      <<"{title:C}", "0xAbC1", 0, 0, OneAndHalfEther, TRUE>> }

Slots == 0 .. (MaxSlots - 1)

\* The ledger's `events(id)` read: a slot never written answers with the
\* well-formed all-zero tuple.
EventsGetter(i) == IF i \in DOMAIN ledger THEN ledger[i] ELSE ZeroTuple

(***************************************************************************)
(* Entity reconciler for events.                                           *)
(***************************************************************************)
EventImpl(id, metadataURI, organizer, maxTickets, ticketsSold, price, active) ==
    [id |-> id, metadataURI |-> metadataURI, organizer |-> organizer,
     maxTickets |-> maxTickets, ticketsSold |-> ticketsSold,
     price |-> price, active |-> active]

\* variant: the sentinel test admits maxTickets = 0
IsValid_NonNegative(event) == event.maxTickets >= 0

IsValid(event) == event.maxTickets > 0

Returned(v) == [threw |-> FALSE, value |-> v]
Thrown == [threw |-> TRUE, value |-> Null]
\* a call that has not settled
Pending == [threw |-> FALSE, value |-> Null]

\* the EventImpl both readers build from a raw tuple
EventOfTuple(eventId, eventData) ==
    EventImpl(eventId, eventData[1], eventData[2], eventData[3],
              eventData[4], FormatEther(eventData[5]), eventData[6])

\* variant: getEvent without the sentinel test
GetEvent_NoSentinelTest(eventId, resp) ==
    IF ~resp.ok
    THEN [threw |-> FALSE, value |-> Null]
    ELSE [threw |-> FALSE, value |-> EventOfTuple(eventId, resp.data)]

\* getEvent(provider, chainId, eventId), given the response of the `events`
\* call: a raw tuple, or Fail when safeContractCall throws (the catch
\* returns null).
GetEvent(eventId, resp) ==
    IF ~resp.ok
    THEN Returned(Null)
    ELSE LET event == EventOfTuple(eventId, resp.data)
         IN  IF ~IsValid(event) THEN Returned(Null) ELSE Returned(event)

\* eventExists(provider, chainId, eventId), given the same response
EventExists(eventId, resp) ==
    LET r == GetEvent(eventId, resp)
    IN  IF r.threw
        THEN Returned(FALSE)
        ELSE Returned(r.value # Null /\ IsValid(r.value))

(***************************************************************************)
(* Initial state.                                                          *)
(***************************************************************************)
NoCall == [status |-> "none"]

\* no post has been written and no write or read-back is in progress
CpInit == [status |-> "none", metadata |-> <<>>, tx |-> <<>>, out |-> Pending]
WriteInit ==
    /\ store = <<>>
    /\ cp = CpInit
    /\ gp = NoCall

\* no tribe is on the ledger and getAllTribes has not been called
GatInit == [status |-> "none", count |-> 0, tribePromises |-> <<>>,
            out |-> Pending]
TribesInit ==
    /\ tribeLedger = <<>>
    /\ gat = GatInit

\* the account of a wallet that is not connected (account is null)
NoAccount == ""

\* no profile token is minted, the wallet is not connected, no context
\* action has been invoked
\* the providers' `error` states hold null or a message
NoError == ""
CtxNone == [provider |-> FALSE, signer |-> FALSE, isConnected |-> FALSE,
            account |-> NoAccount, isOrganizer |-> FALSE, profile |-> Null,
            allEvents |-> <<>>, userEvents |-> <<>>, tribes |-> <<>>,
            posts |-> <<>>, eventsError |-> NoError, profileError |-> NoError,
            postsError |-> NoError, tribesError |-> NoError]
ActInit == [status |-> "none", name |-> "", args |-> <<>>, closure |-> CtxNone,
            local |-> Null, tx |-> <<>>, confirmed |-> FALSE,
            result |-> Pending, out |-> Pending]
\* JoinType.Open
JoinTypeOpen == 0

\* enum JoinType
JoinType == [Open |-> JoinTypeOpen, Approval |-> 1, Invite |-> 2, NFTGated |-> 3]
JoinTypes == {JoinType.Open, JoinType.Approval, JoinType.Invite, JoinType.NFTGated}

\* the CreateTribeForm as mounted: useState('') for name and description,
\* JoinType.Open, isSubmitting false, error null; no createNewTribe call yet
FormInit == [name |-> "", description |-> "", joinType |-> JoinType.Open,
             isSubmitting |-> FALSE, error |-> NoError, started |-> <<>>]

\* the providers as mounted: useState(true) for loading and loadingRole, no
\* call in flight
RfInit == [ops |-> <<>>, loading |-> TRUE, loadingRole |-> TRUE]

ContextInit ==
    /\ profiles = <<>>
    /\ ctx = CtxNone
    /\ act = ActInit
    /\ calls = <<>>
    /\ form = FormInit
    /\ rf = RfInit

\* the subsystems other than the event and post readers are at rest
ExtInit == WriteInit /\ TribesInit /\ ContextInit /\ rd = NoCall

ScanInit == [status |-> "none", maxEvents |-> 0, eventId |-> 0,
             events |-> <<>>, log |-> <<>>]

CeInit == [status |-> "none", tx |-> <<>>, confirmed |-> FALSE,
           logs |-> <<>>, out |-> Pending]

Init ==
    /\ ledger \in [Slots -> RawTuples]
    /\ pc = "idle"
    /\ ge = NoCall
    /\ ex = NoCall
    /\ scan = ScanInit
    /\ ce = CeInit
    /\ postIdsByTribe = [t \in {} |-> <<>>]
    /\ gap = [status |-> "none"]
    /\ ExtInit

(***************************************************************************)
(* getEvent and eventExists: one ledger read each.                         *)
(***************************************************************************)
Responses(i) == {Answer(EventsGetter(i)), Fail}

GetEventCall ==
    /\ pc = "idle"
    /\ \E i \in 0 .. MaxSlots : \E resp \in Responses(i) :
          ge' = [status |-> "returned", index |-> i, id |-> toString(i),
                 resp |-> resp, out |-> GetEvent(toString(i), resp)]
    /\ ex' = NoCall /\ scan' = ScanInit /\ ce' = CeInit
    /\ rd' = NoCall
    /\ UNCHANGED <<ledger, pc, postVars, writeVars, tribeVars, ctxVars>>

EventExistsCall ==
    /\ pc = "idle"
    /\ \E i \in 0 .. MaxSlots : \E resp \in Responses(i) :
          ex' = [status |-> "returned", index |-> i, id |-> toString(i),
                 resp |-> resp, out |-> EventExists(toString(i), resp)]
    /\ ge' = NoCall /\ scan' = ScanInit /\ ce' = CeInit
    /\ rd' = NoCall
    /\ UNCHANGED <<ledger, pc, postVars, writeVars, tribeVars, ctxVars>>

(***************************************************************************)
(* getAllEvents: the sequential scan.                                      *)
(***************************************************************************)
\* variant: the loop runs one index too far
LoopTest_Inclusive(s) == s.eventId <= s.maxEvents

\* the while condition
LoopTest(s) == s.eventId < s.maxEvents

GetAllEventsStart ==
    /\ pc = "idle"
    /\ \E m \in 0 .. MaxEventsArg :
          scan' = [status |-> "test", maxEvents |-> m, eventId |-> 0,
                   events |-> <<>>, log |-> <<>>]
    /\ pc' = "getAllEvents"
    /\ ge' = NoCall /\ ex' = NoCall /\ ce' = CeInit
    /\ rd' = NoCall
    /\ UNCHANGED <<ledger, postVars, writeVars, tribeVars, ctxVars>>

\* the loop condition holds: the `events` read of the current index is issued
GetAllEventsFetch ==
    /\ pc = "getAllEvents" /\ scan.status = "test"
    /\ LoopTest(scan)
    /\ scan' = [scan EXCEPT !.status = "await",
                            !.log = Append(@, [index |-> scan.eventId,
                                               outcome |-> "pending"])]
    /\ UNCHANGED <<ledger, pc, ge, ex, ce, postVars, extVars>>

\* variant: a sentinel is skipped instead of ending the scan
OnTuple_SkipSentinel(s, eventData) ==
    LET event == EventOfTuple(toString(s.eventId), eventData)
        n == Len(s.log)
    IN  IF ~IsValid(event)
        THEN [s EXCEPT !.status = "test",
                       !.eventId = @ + 1,
                       !.log[n].outcome = "sentinel"]
        ELSE [s EXCEPT !.status = "test",
                       !.events = Append(@, event),
                       !.eventId = @ + 1,
                       !.log[n].outcome = "valid"]

\* variant: new events are put in front of the list
OnTuple_Prepend(s, eventData) ==
    LET event == EventOfTuple(toString(s.eventId), eventData)
        n == Len(s.log)
    IN  IF ~IsValid(event)
        THEN [s EXCEPT !.status = "returned",
                       !.log[n].outcome = "sentinel"]
        ELSE [s EXCEPT !.status = "test",
                       !.events = <<event>> \o @,
                       !.eventId = @ + 1,
                       !.log[n].outcome = "valid"]

\* what the loop body does with a raw tuple
OnTuple(s, eventData) ==
    LET event == EventOfTuple(toString(s.eventId), eventData)
        n == Len(s.log)
    IN  IF ~IsValid(event)
        THEN [s EXCEPT !.status = "returned",
                       !.log[n].outcome = "sentinel"]
        ELSE [s EXCEPT !.status = "test",
                       !.events = Append(@, event),
                       !.eventId = @ + 1,
                       !.log[n].outcome = "valid"]

\* variant: a failed read ends the scan
OnFailure_Stop(s) ==
    [s EXCEPT !.status = "returned",
              !.log[Len(s.log)].outcome = "fail"]

\* what the inner catch does when the read throws
OnFailure(s) ==
    [s EXCEPT !.status = "test",
              !.eventId = @ + 1,
              !.log[Len(s.log)].outcome = "fail"]

GetAllEventsAnswer ==
    /\ pc = "getAllEvents" /\ scan.status = "await"
    /\ scan' = OnTuple(scan, EventsGetter(scan.eventId))
    /\ pc' = IF scan'.status = "returned" THEN "idle" ELSE pc
    /\ UNCHANGED <<ledger, ge, ex, ce, postVars, extVars>>

GetAllEventsFailure ==
    /\ pc = "getAllEvents" /\ scan.status = "await"
    /\ scan' = OnFailure(scan)
    /\ pc' = IF scan'.status = "returned" THEN "idle" ELSE pc
    /\ UNCHANGED <<ledger, ge, ex, ce, postVars, extVars>>

\* the loop condition fails: return events
GetAllEventsReturn ==
    /\ pc = "getAllEvents" /\ scan.status = "test"
    /\ ~LoopTest(scan)
    /\ scan' = [scan EXCEPT !.status = "returned"]
    /\ pc' = "idle"
    /\ UNCHANGED <<ledger, ge, ex, ce, postVars, extVars>>

(***************************************************************************)
(* createEvent: submit, await confirmation, extract the new identifier.    *)
(***************************************************************************)
\* What abi.parseLog makes of one receipt log: a decoded event (name and
\* positional args), null (no fragment of the ABI matches), or a throw.
ParsedEventCreated(id) ==
    [parse |-> "event", name |-> "EventCreated", args |-> <<id, "0xAbC1">>]
ParsedOther ==
    [parse |-> "event", name |-> "RoleGranted", args |-> <<1, "0xdEf2">>]
ParsedNull == [parse |-> "null", name |-> "", args |-> <<>>]
ParseThrows == [parse |-> "throws", name |-> "", args |-> <<>>]

\* identifiers the ledger may report in EventCreated
CreatedIds == {0, 2}

LogKinds ==
    {ParsedEventCreated(id) : id \in CreatedIds}
        \cup {ParsedOther, ParsedNull, ParseThrows}

\* receipt.logs of a confirmed transaction
Receipts == UNION {[1 .. n -> LogKinds] : n \in 0 .. MaxLogs}

\* resource-limit hint of the createEvent transaction
CreateEventGasLimit == 500000

\* createEvent(signer, chainId, eventData, maxTickets, price) arguments
CreateArgs ==
    { [eventData |-> "{title:A}", maxTickets |-> 2,
       price |-> FormatEther(OneEther)],
      [eventData |-> "{title:B}", maxTickets |-> 1,
       price |-> FormatEther(<<1>>)] }

\* the transaction createEvent hands to safeContractCall
CreateEventTx(args) ==
    [method |-> "createEvent", metadataURI |-> args.eventData,
     maxTickets |-> args.maxTickets, price |-> ParseEther(args.price),
     gasLimit |-> CreateEventGasLimit]

NotFound == [found |-> FALSE, id |-> 0]

\* one pass of the loop body over a log: the try block returns the first
\* argument of an EventCreated log; a throw of parseLog is caught (continue).
LogStep(log) ==
    IF log.parse = "throws"
    THEN NotFound
    ELSE IF log.parse # "null" /\ log.name = "EventCreated"
         THEN [found |-> TRUE, id |-> log.args[1]]
         ELSE NotFound

\* variant: only the first log of the receipt is looked at
ExtractEventId_FirstLogOnly(logs) ==
    IF Len(logs) = 0 THEN NotFound ELSE LogStep(logs[1])

\* variant: a log that fails to parse ends the extraction
ExtractEventId_ThrowAborts(logs) ==
    LET loop[k \in 0 .. Len(logs)] ==
            IF k = 0 THEN [found |-> FALSE, id |-> 0, stop |-> FALSE]
            ELSE IF loop[k - 1].found \/ loop[k - 1].stop THEN loop[k - 1]
            ELSE IF logs[k].parse = "throws"
                 THEN [found |-> FALSE, id |-> 0, stop |-> TRUE]
                 ELSE [found |-> LogStep(logs[k]).found,
                       id |-> LogStep(logs[k]).id, stop |-> FALSE]
    IN  [found |-> loop[Len(logs)].found, id |-> loop[Len(logs)].id]

\* for (const log of receipt.logs): the state after the first k logs
ExtractEventId(logs) ==
    LET loop[k \in 0 .. Len(logs)] ==
            IF k = 0 THEN NotFound
            ELSE IF loop[k - 1].found THEN loop[k - 1]
            ELSE LogStep(logs[k])
    IN  loop[Len(logs)]

\* what createEvent returns for a confirmed receipt: Number(eventId) of the
\* match (exact for identifiers below 2^53), or the placeholder 0
CreateEventResult(logs) ==
    LET r == ExtractEventId(logs)
    IN  IF r.found THEN Returned(r.id) ELSE Returned(0)

CallsReset == ge' = NoCall /\ ex' = NoCall /\ scan' = ScanInit

\* createEvent is called: the createEvent transaction is handed to the signer
CreateEventSubmit ==
    /\ pc = "idle"
    /\ \E args \in CreateArgs :
          ce' = [status |-> "submitting", tx |-> CreateEventTx(args),
                 confirmed |-> FALSE, logs |-> <<>>, out |-> Pending]
    /\ pc' = "createEvent"
    /\ CallsReset
    /\ UNCHANGED <<ledger, postVars, extVars>>

\* safeContractCall throws (rejected or unreachable): the catch rethrows
CreateEventRejected ==
    /\ pc = "createEvent" /\ ce.status = "submitting"
    /\ ce' = [ce EXCEPT !.status = "returned", !.tx = <<>>, !.out = Thrown]
    /\ pc' = "idle"
    /\ UNCHANGED <<ledger, ge, ex, scan, postVars, extVars>>

\* safeContractCall returns the transaction handle; tx.wait() starts
CreateEventSent ==
    /\ pc = "createEvent" /\ ce.status = "submitting"
    /\ ce' = [ce EXCEPT !.status = "waiting"]
    /\ UNCHANGED <<ledger, pc, ge, ex, scan, postVars, extVars>>

\* tx.wait() throws (reverted): the catch rethrows
CreateEventReverted ==
    /\ pc = "createEvent" /\ ce.status = "waiting"
    /\ ce' = [ce EXCEPT !.status = "returned", !.out = Thrown]
    /\ pc' = "idle"
    /\ UNCHANGED <<ledger, ge, ex, scan, postVars, extVars>>

\* tx.wait() returns the receipt: the logs are scanned for EventCreated
CreateEventConfirmed ==
    /\ pc = "createEvent" /\ ce.status = "waiting"
    /\ \E logs \in Receipts :
          ce' = [ce EXCEPT !.status = "returned", !.confirmed = TRUE,
                           !.logs = logs, !.out = CreateEventResult(logs)]
    /\ pc' = "idle"
    /\ UNCHANGED <<ledger, ge, ex, scan, postVars, extVars>>

Next ==
    \/ GetEventCall
    \/ EventExistsCall
    \/ GetAllEventsStart
    \/ GetAllEventsFetch
    \/ GetAllEventsAnswer
    \/ GetAllEventsFailure
    \/ GetAllEventsReturn

Spec == Init /\ [][Next]_vars

\* createEvent does not read the events mapping: its runs start from an
\* empty ledger
InitCreateEvent ==
    /\ ledger = [i \in Slots |-> ZeroTuple]
    /\ pc = "idle"
    /\ ge = NoCall
    /\ ex = NoCall
    /\ scan = ScanInit
    /\ ce = CeInit
    /\ postIdsByTribe = [t \in {} |-> <<>>]
    /\ gap = [status |-> "none"]
    /\ ExtInit

NextCreateEvent ==
    \/ CreateEventSubmit
    \/ CreateEventRejected
    \/ CreateEventSent
    \/ CreateEventReverted
    \/ CreateEventConfirmed

SpecCreateEvent == InitCreateEvent /\ [][NextCreateEvent]_vars

\* every response the ledger owes is eventually delivered (answer or failure)
ScanStep ==
    \/ GetAllEventsFetch
    \/ GetAllEventsAnswer
    \/ GetAllEventsFailure
    \/ GetAllEventsReturn

FairSpec == Spec /\ WF_vars(ScanStep)

(***************************************************************************)
(* Posts: the PostMinter ledger, getPostsByTribe, getPost, getAllPosts.    *)
(***************************************************************************)
\* default of getAllPosts' limit parameter
DefaultLimit == 10

\* Date.prototype.toISOString / new Date(iso).getTime(), on clock readings
ToISOString(t) == [iso |-> t]
GetTime(str) == str.iso

\* variant: the imageUrl property is not written
JsonStringify_NoImageUrl(m) ==
    [json |-> TRUE,
     pairs |-> <<<<"title", m.title>>, <<"content", m.content>>,
                 <<"type", m.type>>, <<"createdAt", m.createdAt>>>>]

\* JSON.stringify of a PostMetadata object: its own properties in insertion
\* order, a property that is undefined left out
JsonStringify(m) ==
    [json |-> TRUE,
     pairs |-> <<<<"title", m.title>>, <<"content", m.content>>,
                 <<"type", m.type>>>>
               \o (IF m.type = "IMAGE" THEN <<<<"imageUrl", m.imageUrl>>>>
                   ELSE <<>>)
               \o <<<<"createdAt", m.createdAt>>>>]

\* a stored blob that is not JSON text
CorruptBlob == [json |-> FALSE, pairs |-> <<>>]

\* JSON.parse: the object of a well-formed blob; it throws on any other text
JsonParse(blob) ==
    IF blob.json
    THEN [ok |-> TRUE,
          value |-> [k \in {blob.pairs[i][1] : i \in DOMAIN blob.pairs} |->
                        LET i == CHOOSE i \in DOMAIN blob.pairs :
                                    blob.pairs[i][1] = k
                        IN  blob.pairs[i][2]]]
    ELSE [ok |-> FALSE, value |-> Null]

\* creation time of the newest stored post
LatestPostTime == 3

\* clock readings (new Date()) at the time posts are read
Clock == {LatestPostTime + d : d \in 0 .. MaxClock}

TextMetadata(title, t) ==
    [title |-> title, content |-> "body", type |-> "TEXT",
     createdAt |-> ToISOString(t)]

PostIds == 1 .. 4
Tribes == 0 .. (MaxTribes - 1)
TribeIdStrings == {toString(t) : t \in Tribes}

\* the tribeIds lists passed to getAllPosts: distinct tribe ids in any order
\* (refreshPosts passes tribes.map(tribe => tribe.id))
TribeIdLists ==
    UNION {{l \in [1 .. n -> TribeIdStrings] :
                \A j, k \in 1 .. n : j # k => l[j] # l[k]} : n \in 0 .. MaxTribes}

\* the tribe whose listing holds the post
TribeOfPost(id) ==
    CHOOSE t \in Tribes :
        \E k \in DOMAIN postIdsByTribe[toString(t)] :
            postIdsByTribe[toString(t)][k] = id

\* the PostMinter `getPost(postId)` read: the stored post tuple
PostData(id) ==
    [creator |-> IF id = 3 THEN "0xdEf2" ELSE "0xAbC1",
     tribeId |-> TribeOfPost(id),
     metadata |-> CASE id = 1 -> JsonStringify(TextMetadata("first", 1))
                    [] id = 2 -> JsonStringify(TextMetadata("second", 3))
                    [] id = 3 -> JsonStringify(TextMetadata("third", 2))
                    [] OTHER -> CorruptBlob,
     isGated |-> FALSE,
     collectibleContract |-> ZeroAddress,
     collectibleId |-> 0,
     isEncrypted |-> FALSE,
     accessSigner |-> ZeroAddress]

\* listings the `getPostsByTribe` reads may answer with: every post under one
\* tribe, or (the third) post 3 listed under two tribes; getAllPosts reads
\* each listing on its own and assumes nothing about their overlap
PostListings ==
    { [t \in TribeIdStrings |->
          CASE t = toString(0) -> <<1, 2>>
            [] t = toString(1) -> <<3>>
            [] t = toString(2) -> <<4>>
            [] OTHER -> <<>>],
      [t \in TribeIdStrings |->
          CASE t = toString(0) -> <<3>>
            [] t = toString(2) -> <<1, 4, 2>>
            [] OTHER -> <<>>],
      [t \in TribeIdStrings |->
          CASE t = toString(0) -> <<3, 1>>
            [] t = toString(1) -> <<3>>
            [] t = toString(2) -> <<4, 2>>
            [] OTHER -> <<>>] }

Min(a, b) == IF a < b THEN a ELSE b

\* the PostMinter `getPostsByTribe(tribeId, offset, limit)` read
PostsByTribeGetter(tribeId, offset, limit) ==
    LET all == postIdsByTribe[tribeId]
    IN  [postIds |-> SubSeq(all, offset + 1, Min(Len(all), offset + limit)),
         total |-> Len(all)]

\* getPostsByTribe(provider, chainId, tribeId, offset, limit), given the
\* response of the listing read: the catch logs and rethrows
GetPostsByTribe(resp) ==
    IF ~resp.ok
    THEN Thrown
    ELSE Returned([postIds |-> resp.data.postIds, total |-> resp.data.total])

\* the metadata getPost substitutes when JSON.parse throws
PlaceholderMetadata(now) ==
    [title |-> "Error", content |-> "Could not parse post metadata",
     type |-> "TEXT", createdAt |-> ToISOString(now)]

\* variant: a metadata blob that fails to parse makes getPost throw
GetPost_ParseFailureThrows(postId, resp, now) ==
    IF ~resp.ok \/ ~JsonParse(resp.data.metadata).ok
    THEN Thrown
    ELSE Returned([id |-> postId,
                   creator |-> resp.data.creator,
                   tribeId |-> toString(resp.data.tribeId),
                   metadata |-> JsonParse(resp.data.metadata).value,
                   isGated |-> resp.data.isGated,
                   collectibleContract |-> resp.data.collectibleContract,
                   collectibleId |-> toString(resp.data.collectibleId),
                   isEncrypted |-> resp.data.isEncrypted,
                   accessSigner |-> resp.data.accessSigner])

\* getPost(provider, chainId, postId), given the response of the `getPost`
\* read and the clock: the outer catch logs and rethrows
GetPost(postId, resp, now) ==
    IF ~resp.ok
    THEN Thrown
    ELSE LET postData == resp.data
             parsed == JsonParse(postData.metadata)
             metadata == IF parsed.ok THEN parsed.value
                         ELSE PlaceholderMetadata(now)
         IN  Returned([id |-> postId,
                       creator |-> postData.creator,
                       tribeId |-> toString(postData.tribeId),
                       metadata |-> metadata,
                       isGated |-> postData.isGated,
                       collectibleContract |-> postData.collectibleContract,
                       collectibleId |-> toString(postData.collectibleId),
                       isEncrypted |-> postData.isEncrypted,
                       accessSigner |-> postData.accessSigner])

\* variant: the comparator puts older posts first
CompareCreatedAt_Ascending(a, b) ==
    GetTime(a.metadata.createdAt) - GetTime(b.metadata.createdAt)

\* the sort comparator: negative when a is to come first
CompareCreatedAt(a, b) ==
    GetTime(b.metadata.createdAt) - GetTime(a.metadata.createdAt)

\* Array.prototype.sort (stable) with that comparator: each element is placed
\* after the elements that are not to come after it
SortPosts(posts) ==
    LET insert(sorted, x) ==
            LET keep == {k \in 0 .. Len(sorted) :
                            \A j \in 1 .. k : CompareCreatedAt(sorted[j], x) <= 0}
                at == CHOOSE k \in keep : \A j \in keep : j <= k
            IN  SubSeq(sorted, 1, at) \o <<x>> \o SubSeq(sorted, at + 1, Len(sorted))
        sorted[k \in 0 .. Len(posts)] ==
            IF k = 0 THEN <<>> ELSE insert(sorted[k - 1], posts[k])
    IN  sorted[Len(posts)]

GapInit == [status |-> "none", tribeIds |-> <<>>, limit |-> 0, i |-> 0,
            listed |-> <<>>, fetchPromises |-> <<>>, out |-> Pending]

InitPosts ==
    /\ ledger = [i \in Slots |-> ZeroTuple]
    /\ pc = "idle"
    /\ ge = NoCall
    /\ ex = NoCall
    /\ scan = ScanInit
    /\ ce = CeInit
    /\ postIdsByTribe \in PostListings
    /\ gap = GapInit
    /\ ExtInit

\* after the listing of tribe i: the next listing is awaited, or the loop is
\* over and Promise.all is awaited
AfterTribe(g) ==
    IF g.i < Len(g.tribeIds)
    THEN [g EXCEPT !.i = @ + 1]
    ELSE [g EXCEPT !.status = "awaitAll"]

\* getAllPosts(provider, chainId, tribeIds, limit) is called; the listing of
\* the first tribe is requested
GetAllPostsStart ==
    /\ gap.status = "none"
    /\ \E tribeIds \in TribeIdLists : \E limit \in {1, DefaultLimit} :
          gap' = AfterTribe([GapInit EXCEPT !.status = "listing",
                                            !.tribeIds = tribeIds,
                                            !.limit = limit])
    /\ UNCHANGED <<eventVars, postIdsByTribe, extVars>>

\* variant: a failed listing is rethrown out of getAllPosts
OnListingFailure_Rethrow(g) ==
    [g EXCEPT !.status = "returned", !.listed = Append(@, "fail"),
              !.out = Thrown]

\* the inner catch: the tribe's failure is logged and the loop goes on
OnListingFailure(g) ==
    AfterTribe([g EXCEPT !.listed = Append(@, "fail")])

\* variant: an id whose getPost call was already started is skipped
OnListing_Dedup(g, postIds) ==
    LET fresh == SelectSeq(postIds, LAMBDA id :
                     \A k \in DOMAIN g.fetchPromises :
                         g.fetchPromises[k].index # id)
    IN  AfterTribe([g EXCEPT
            !.listed = Append(@, "ok"),
            !.fetchPromises = @ \o [k \in DOMAIN fresh |->
                                       [postId |-> toString(fresh[k]),
                                        index |-> fresh[k],
                                        tribe |-> g.i,
                                        state |-> "pending",
                                        value |-> Null]]])

\* the listing answered: one getPost call is started per listed id and its
\* promise pushed
OnListing(g, postIds) ==
    AfterTribe([g EXCEPT
        !.listed = Append(@, "ok"),
        !.fetchPromises = @ \o [k \in DOMAIN postIds |->
                                   [postId |-> toString(postIds[k]),
                                    index |-> postIds[k],
                                    tribe |-> g.i,
                                    state |-> "pending",
                                    value |-> Null]]])

\* the awaited getPostsByTribe of tribe i returns
GetAllPostsListed ==
    /\ gap.status = "listing"
    /\ LET r == GetPostsByTribe(Answer(
                    PostsByTribeGetter(gap.tribeIds[gap.i], 0, gap.limit)))
       IN  gap' = OnListing(gap, r.value.postIds)
    /\ UNCHANGED <<eventVars, postIdsByTribe, extVars>>

\* the awaited getPostsByTribe of tribe i throws
GetAllPostsListingFailed ==
    /\ gap.status = "listing"
    /\ GetPostsByTribe(Fail).threw
    /\ gap' = OnListingFailure(gap)
    /\ UNCHANGED <<eventVars, postIdsByTribe, extVars>>

\* a started getPost call settles: its promise is fulfilled with the post
GetPostFulfilled ==
    /\ gap.status \in {"listing", "awaitAll"}
    /\ \E k \in DOMAIN gap.fetchPromises : \E now \in Clock :
          /\ gap.fetchPromises[k].state = "pending"
          /\ LET pr == gap.fetchPromises[k]
                 r == GetPost(pr.postId, Answer(PostData(pr.index)), now)
             IN  gap' = [gap EXCEPT !.fetchPromises[k].state = "fulfilled",
                                    !.fetchPromises[k].value = r.value]
    /\ UNCHANGED <<eventVars, postIdsByTribe, extVars>>

\* a started getPost call settles: its promise is rejected
GetPostRejected ==
    /\ gap.status \in {"listing", "awaitAll"}
    /\ \E k \in DOMAIN gap.fetchPromises :
          /\ gap.fetchPromises[k].state = "pending"
          /\ GetPost(gap.fetchPromises[k].postId, Fail, LatestPostTime).threw
          /\ gap' = [gap EXCEPT !.fetchPromises[k].state = "rejected"]
    /\ UNCHANGED <<eventVars, postIdsByTribe, extVars>>

\* Promise.all(fetchPromises) resolves: the posts are sorted and returned
GetAllPostsReturn ==
    /\ gap.status = "awaitAll"
    /\ \A k \in DOMAIN gap.fetchPromises :
          gap.fetchPromises[k].state = "fulfilled"
    /\ LET posts == [k \in DOMAIN gap.fetchPromises |->
                        gap.fetchPromises[k].value]
       IN  gap' = [gap EXCEPT !.status = "returned",
                              !.out = Returned(SortPosts(posts))]
    /\ UNCHANGED <<eventVars, postIdsByTribe, extVars>>

\* Promise.all(fetchPromises) rejects as soon as one promise is rejected: the
\* outer catch logs and rethrows
GetAllPostsThrow ==
    /\ gap.status = "awaitAll"
    /\ \E k \in DOMAIN gap.fetchPromises :
          gap.fetchPromises[k].state = "rejected"
    /\ gap' = [gap EXCEPT !.status = "returned", !.out = Thrown]
    /\ UNCHANGED <<eventVars, postIdsByTribe, extVars>>

NextPosts ==
    \/ GetAllPostsStart
    \/ GetAllPostsListed
    \/ GetAllPostsListingFailed
    \/ GetPostFulfilled
    \/ GetPostRejected
    \/ GetAllPostsReturn
    \/ GetAllPostsThrow

SpecPosts == InitPosts /\ [][NextPosts]_vars

(***************************************************************************)
(* Post writes: createTextPost, createImagePost, and the read-back.        *)
(***************************************************************************)
\* posts written in one run
MaxPosts == 2

\* the metadata object createTextPost builds
CreateTextPostMetadata(title, content, now) ==
    [title |-> title, content |-> content, type |-> "TEXT",
     createdAt |-> ToISOString(now)]

\* the metadata object createImagePost builds
CreateImagePostMetadata(title, content, imageUrl, now) ==
    [title |-> title, content |-> content, type |-> "IMAGE",
     imageUrl |-> imageUrl, createdAt |-> ToISOString(now)]

\* the createPost transaction both writers hand to the contract
CreatePostTx(tribeId, metadata) ==
    [method |-> "createPost", tribeId |-> tribeId,
     metadata |-> JsonStringify(metadata), isGated |-> FALSE,
     collectibleContract |-> ZeroAddress, collectibleId |-> 0]

\* arguments (tribeId, title, content) of createTextPost
TextPostArgs == {<<toString(0), "gm", "body">>, <<toString(1), "", "">>}
\* arguments (tribeId, title, content, imageUrl) of createImagePost
ImagePostArgs ==
    {<<toString(0), "pic", "look", "ipfs://a">>, <<toString(1), "", "", "">>}

\* the post tuple the ledger stores for a confirmed createPost transaction
StoredPost(tx) ==
    [creator |-> "0xAbC1",
     tribeId |-> CHOOSE t \in Tribes : toString(t) = tx.tribeId,
     metadata |-> tx.metadata,
     isGated |-> tx.isGated,
     collectibleContract |-> tx.collectibleContract,
     collectibleId |-> tx.collectibleId,
     isEncrypted |-> FALSE,
     accessSigner |-> ZeroAddress]

CanWrite == cp.status \in {"none", "returned"} /\ Len(store) < MaxPosts

\* createTextPost is called: the metadata is built and createPost submitted
CreateTextPostSubmit ==
    /\ CanWrite
    /\ \E a \in TextPostArgs : \E now \in Clock :
          LET metadata == CreateTextPostMetadata(a[2], a[3], now)
          IN  cp' = [status |-> "waiting", metadata |-> metadata,
                     tx |-> CreatePostTx(a[1], metadata), out |-> Pending]
    /\ gp' = NoCall
    /\ UNCHANGED <<notWriteVars, store>>

\* createImagePost is called: the metadata is built and createPost submitted
CreateImagePostSubmit ==
    /\ CanWrite
    /\ \E a \in ImagePostArgs : \E now \in Clock :
          LET metadata == CreateImagePostMetadata(a[2], a[3], a[4], now)
          IN  cp' = [status |-> "waiting", metadata |-> metadata,
                     tx |-> CreatePostTx(a[1], metadata), out |-> Pending]
    /\ gp' = NoCall
    /\ UNCHANGED <<notWriteVars, store>>

\* contract.createPost or tx.wait() throws: the catch logs and rethrows
CreatePostThrows ==
    /\ cp.status = "waiting"
    /\ cp' = [cp EXCEPT !.status = "returned", !.out = Thrown]
    /\ UNCHANGED <<notWriteVars, store, gp>>

\* tx.wait() returns the receipt: the ledger holds the new post
CreatePostConfirmed ==
    /\ cp.status = "waiting"
    /\ store' = Append(store, [post |-> StoredPost(cp.tx),
                               written |-> cp.metadata])
    /\ cp' = [cp EXCEPT !.status = "returned",
                        !.out = Returned([receipt |-> Len(store) + 1])]
    /\ UNCHANGED <<notWriteVars, gp>>

\* the stored blob of a post is damaged (it is no longer JSON text)
StoredBlobCorrupted ==
    /\ cp.status # "waiting"
    /\ \E id \in DOMAIN store :
          /\ store[id].post.metadata.json
          /\ store' = [store EXCEPT ![id].post.metadata = CorruptBlob]
    /\ cp' = CpInit
    /\ gp' = NoCall
    /\ UNCHANGED notWriteVars

\* getPost is called on a written post
GetPostCall ==
    /\ cp.status # "waiting"
    /\ \E id \in DOMAIN store : \E now \in Clock :
       \E resp \in {Answer(store[id].post), Fail} :
          gp' = [status |-> "returned", index |-> id, postId |-> toString(id),
                 resp |-> resp, now |-> now,
                 out |-> GetPost(toString(id), resp, now)]
    /\ cp' = CpInit
    /\ UNCHANGED <<notWriteVars, store>>

InitPostWrite ==
    /\ ledger = [i \in Slots |-> ZeroTuple]
    /\ pc = "idle"
    /\ ge = NoCall
    /\ ex = NoCall
    /\ scan = ScanInit
    /\ ce = CeInit
    /\ postIdsByTribe = [t \in {} |-> <<>>]
    /\ gap = [status |-> "none"]
    /\ WriteInit
    /\ TribesInit
    /\ ContextInit
    /\ rd = NoCall

NextPostWrite ==
    \/ CreateTextPostSubmit
    \/ CreateImagePostSubmit
    \/ CreatePostThrows
    \/ CreatePostConfirmed
    \/ StoredBlobCorrupted
    \/ GetPostCall

SpecPostWrite == InitPostWrite /\ [][NextPostWrite]_vars

(***************************************************************************)
(* Tribes: getNextTribeId, getTribeDetails, getAllTribes.                  *)
(***************************************************************************)
\* the metadata blob createTribe writes: JSON.stringify({description, createdAt})
TribeMetadataBlob(description, now) ==
    [json |-> TRUE,
     pairs |-> <<<<"description", description>>,
                 <<"createdAt", ToISOString(now)>>>>]

\* tribe structs the ledger may hold:
\* metadata with a description, metadata that is not JSON, and JSON metadata
\* without a description
TribeStructs ==
    { [name |-> "builders", metadata |-> TribeMetadataBlob("we build", 1),
       joinType |-> 0, entryFee |-> 0, memberCount |-> 2, canMerge |-> TRUE,
       admin |-> "0xAbC1", isActive |-> TRUE],
      [name |-> "artists", metadata |-> CorruptBlob,
       joinType |-> 1, entryFee |-> 15, memberCount |-> 1, canMerge |-> FALSE,
       admin |-> "0xdEf2", isActive |-> TRUE],
      [name |-> "quiet", metadata |-> [json |-> TRUE, pairs |-> <<>>],
       joinType |-> 0, entryFee |-> 0, memberCount |-> 0, canMerge |-> FALSE,
       admin |-> "0xdEf2", isActive |-> FALSE] }

\* the TribeController `nextTribeId()` read
NextTribeIdGetter == Len(tribeLedger)

\* the TribeController `getTribeDetails(tribeId)` read of an existing tribe
TribeDetailsGetter(i) == tribeLedger[i + 1]

\* getNextTribeId(provider, chainId), given the response of the counter
\* read: the catch logs and rethrows
GetNextTribeId(resp) ==
    IF ~resp.ok THEN Thrown ELSE Returned(resp.data)

\* getTribeDetails(provider, chainId, tribeId), given the response of the
\* details read: a metadata parse failure leaves the description empty, a
\* failed read returns null
GetTribeDetails(tribeId, resp) ==
    IF ~resp.ok
    THEN Returned(Null)
    ELSE LET details == resp.data
             parsed == JsonParse(details.metadata)
             description ==
                 IF parsed.ok /\ "description" \in DOMAIN parsed.value
                 THEN parsed.value["description"]
                 ELSE ""
         IN  Returned([id |-> tribeId,
                       name |-> details.name,
                       description |-> description,
                       joinType |-> details.joinType,
                       entryFee |-> toString(details.entryFee),
                       memberCount |-> details.memberCount,
                       canMerge |-> details.canMerge,
                       admin |-> details.admin,
                       isActive |-> details.isActive])

\* variant: the loop also fetches index nextTribeId
TribeLoopIndices_Inclusive(nextTribeId) == 0 .. nextTribeId

\* for (let i = 0; i < nextTribeId; i++): the indices the loop visits
TribeLoopIndices(nextTribeId) == 0 .. (nextTribeId - 1)

\* getAllTribes(provider, chainId) is called: the counter read is awaited
GetAllTribesStart ==
    /\ gat.status = "none"
    /\ gat' = [gat EXCEPT !.status = "counting"]
    /\ UNCHANGED <<notTribeVars, tribeLedger>>

\* getNextTribeId throws: the catch of getAllTribes logs and rethrows
GetAllTribesCountFailed ==
    /\ gat.status = "counting"
    /\ GetNextTribeId(Fail).threw
    /\ gat' = [gat EXCEPT !.status = "returned", !.out = Thrown]
    /\ UNCHANGED <<notTribeVars, tribeLedger>>

\* getNextTribeId returns: one getTribeDetails call is started per index of
\* the loop and its promise pushed; Promise.all is awaited
GetAllTribesCounted ==
    /\ gat.status = "counting"
    /\ LET nextTribeId == GetNextTribeId(Answer(NextTribeIdGetter)).value
           indices == TribeLoopIndices(nextTribeId)
       IN  gat' = [gat EXCEPT
                !.status = "awaitAll",
                !.count = nextTribeId,
                !.tribePromises =
                    [k \in 1 .. Cardinality(indices) |->
                        [tribeId |-> toString(k - 1), index |-> k - 1,
                         state |-> "pending", failed |-> FALSE,
                         value |-> Null]]]
    /\ UNCHANGED <<notTribeVars, tribeLedger>>

\* the details read of a started getTribeDetails call answers
GetTribeDetailsAnswered ==
    /\ gat.status = "awaitAll"
    /\ \E k \in DOMAIN gat.tribePromises :
          /\ gat.tribePromises[k].state = "pending"
          /\ gat.tribePromises[k].index < Len(tribeLedger)
          /\ LET pr == gat.tribePromises[k]
                 r == GetTribeDetails(pr.tribeId,
                                      Answer(TribeDetailsGetter(pr.index)))
             IN  gat' = [gat EXCEPT !.tribePromises[k].state = "fulfilled",
                                    !.tribePromises[k].value = r.value]
    /\ UNCHANGED <<notTribeVars, tribeLedger>>

\* the details read of a started getTribeDetails call fails: the call
\* returns null
GetTribeDetailsFailed ==
    /\ gat.status = "awaitAll"
    /\ \E k \in DOMAIN gat.tribePromises :
          /\ gat.tribePromises[k].state = "pending"
          /\ LET r == GetTribeDetails(gat.tribePromises[k].tribeId, Fail)
             IN  gat' = [gat EXCEPT !.tribePromises[k].state = "fulfilled",
                                    !.tribePromises[k].failed = TRUE,
                                    !.tribePromises[k].value = r.value]
    /\ UNCHANGED <<notTribeVars, tribeLedger>>

\* Promise.all(tribePromises) resolves: the null results are filtered out
GetAllTribesReturn ==
    /\ gat.status = "awaitAll"
    /\ \A k \in DOMAIN gat.tribePromises :
          gat.tribePromises[k].state = "fulfilled"
    /\ LET results == [k \in DOMAIN gat.tribePromises |->
                          gat.tribePromises[k].value]
           tribes == SelectSeq(results, LAMBDA tribe : tribe # Null)
       IN  gat' = [gat EXCEPT !.status = "returned", !.out = Returned(tribes)]
    /\ UNCHANGED <<notTribeVars, tribeLedger>>

InitTribes ==
    /\ ledger = [i \in Slots |-> ZeroTuple]
    /\ pc = "idle"
    /\ ge = NoCall
    /\ ex = NoCall
    /\ scan = ScanInit
    /\ ce = CeInit
    /\ postIdsByTribe = [t \in {} |-> <<>>]
    /\ gap = [status |-> "none"]
    /\ WriteInit
    /\ tribeLedger \in UNION {[1 .. n -> TribeStructs] : n \in 0 .. MaxTribes}
    /\ gat = GatInit
    /\ ContextInit
    /\ rd = NoCall

NextTribes ==
    \/ GetAllTribesStart
    \/ GetAllTribesCountFailed
    \/ GetAllTribesCounted
    \/ GetTribeDetailsAnswered
    \/ GetTribeDetailsFailed
    \/ GetAllTribesReturn

SpecTribes == InitTribes /\ [][NextTribes]_vars

(***************************************************************************)
(* Fail-soft readers: getUserEvents, getTicketBalance, checkUsername,      *)
(* getProfileByAddress.                                                    *)
(***************************************************************************)
\* profile tokens minted in one run
MaxProfiles == 2

\* String.prototype.toLowerCase on the addresses in use
ToLowerCase(str) ==
    CASE str = "0xAbC1" -> "0xabc1"
      [] str = "0xdEf2" -> "0xdef2"
      [] str = "0x9F9f" -> "0x9f9f"
      [] OTHER -> str

\* addresses as callers pass them: checksummed or lower case
UserAddresses == {"0xAbC1", "0xabc1", "0xdEf2", "0x9F9f"}

\* variant: the organizer is compared with userAddress as written
GetUserEvents_CaseSensitive(userAddress, all) ==
    IF all.threw
    THEN Returned(<<>>)
    ELSE Returned(SelectSeq(all.value,
                    LAMBDA event : event.organizer = userAddress))

\* getUserEvents(provider, chainId, userAddress, maxEvents), given the
\* outcome of its getAllEvents call: the events organized by the user; the
\* catch returns []
GetUserEvents(userAddress, all) ==
    IF all.threw
    THEN Returned(<<>>)
    ELSE Returned(SelectSeq(all.value,
                    LAMBDA event : ToLowerCase(event.organizer)
                                      = ToLowerCase(userAddress)))

\* the EventController `balanceOf(address, eventId)` read: the tickets held
TicketBalanceGetter(address, i) ==
    IF ToLowerCase(address) = "0xdef2" THEN EventsGetter(i)[4] ELSE 0

\* getTicketBalance(provider, chainId, address, eventId), given the response
\* of the balanceOf read: the catch returns 0
GetTicketBalance(resp) ==
    IF ~resp.ok THEN Returned(0) ELSE Returned(resp.data)

\* a profile metadata blob: JSON.stringify of a ProfileMetadata {name}
ProfileMetadataBlob(name) == [json |-> TRUE, pairs |-> <<<<"name", name>>>>]

\* profile tokens the ledger may hold (owner, username, metadata)
ProfileTokens ==
    { [owner |-> "0xAbC1", username |-> "alice",
       metadata |-> ProfileMetadataBlob("Alice")],
      [owner |-> "0xdEf2", username |-> "bob", metadata |-> CorruptBlob],
      [owner |-> "0x9F9f", username |-> "carol",
       metadata |-> ProfileMetadataBlob("Carol")] }

\* token lists of the ledger: one token per owner, one owner per username
ProfileLedgers ==
    UNION {{l \in [1 .. n -> ProfileTokens] :
                \A j, k \in 1 .. n : j # k => l[j] # l[k]} : n \in 0 .. MaxProfiles}

Usernames == {"alice", "bob", "dave"}

\* the ProfileNFTMinter reads
UsernameExistsGetter(username) ==
    \E k \in DOMAIN profiles : profiles[k].username = username
ProfileBalanceOfGetter(address) ==
    Cardinality({k \in DOMAIN profiles :
                    ToLowerCase(profiles[k].owner) = ToLowerCase(address)})
OwnerOfGetter(i) == profiles[i + 1].owner
ProfileByTokenIdGetter(i) ==
    <<profiles[i + 1].username, profiles[i + 1].metadata, profiles[i + 1].owner>>

\* checkUsername(username), given the provider state and the response of
\* the usernameExists read: false without a provider and in the catch
CheckUsername(provider, resp) ==
    IF ~provider THEN Returned(FALSE)
    ELSE IF ~resp.ok THEN Returned(FALSE)
    ELSE Returned(resp.data)

\* parseMetadata(metadataStr): the catch returns { name: 'Unknown' }
ParseMetadata(metadataStr) ==
    IF JsonParse(metadataStr).ok
    THEN JsonParse(metadataStr).value
    ELSE [name |-> "Unknown"]

\* the token ids getProfileByAddress probes with ownerOf: for (i = 0; i < 10)
TokenScanLimit == 10
TokenIndices == 0 .. (TokenScanLimit - 1)

NoToken == -1

\* a ledger that has minted more tokens than the ownerOf loop probes: the
\* token ids 0 .. 9 belong to other owners, token 10 is carol's
OtherOwners ==
    <<"0x0a00", "0x0a01", "0x0a02", "0x0a03", "0x0a04",
      "0x0a05", "0x0a06", "0x0a07", "0x0a08", "0x0a09">>
CrowdedLedger ==
    [k \in 1 .. (TokenScanLimit + 1) |->
        IF k <= TokenScanLimit
        THEN [owner |-> OtherOwners[k], username |-> OtherOwners[k],
              metadata |-> ProfileMetadataBlob("Other")]
        ELSE [owner |-> "0x9F9f", username |-> "carol",
              metadata |-> ProfileMetadataBlob("Carol")]]

\* variant: a failed ownerOf read ends the search for the token id
FindTokenId_FailureEndsSearch(address, ownerResp) ==
    LET matches == {i \in TokenIndices :
                       /\ \A j \in 0 .. i : ownerResp[j].ok
                       /\ ToLowerCase(ownerResp[i].data) = ToLowerCase(address)}
    IN  IF matches = {} THEN NoToken
        ELSE CHOOSE i \in matches : \A j \in matches : i <= j

\* the ownerOf loop: the first probed id whose owner is the address; an
\* ownerOf read that throws is skipped (continue)
FindTokenId(address, ownerResp) ==
    LET matches == {i \in TokenIndices :
                       /\ ownerResp[i].ok
                       /\ ToLowerCase(ownerResp[i].data) = ToLowerCase(address)}
    IN  IF matches = {} THEN NoToken
        ELSE CHOOSE i \in matches : \A j \in matches : i <= j

\* getProfileByAddress(address), given the provider state and the responses
\* of the balanceOf read, of the ownerOf reads and of the getProfileByTokenId
\* read: null without a provider, without a token, and in the catch
GetProfileByAddress(provider, address, balanceResp, ownerResp, profileResp) ==
    IF ~provider THEN Returned(Null)
    ELSE IF ~balanceResp.ok THEN Returned(Null)
    ELSE IF balanceResp.data = 0 THEN Returned(Null)
    ELSE LET userTokenId == FindTokenId(address, ownerResp)
         IN  IF userTokenId = NoToken THEN Returned(Null)
             ELSE IF ~profileResp.ok THEN Returned(Null)
             ELSE Returned([tokenId |-> toString(userTokenId),
                            username |-> profileResp.data[1],
                            metadata |-> ParseMetadata(profileResp.data[2]),
                            owner |-> address])

\* the token ids whose ownerOf read getProfileByAddress issues: none without
\* a provider, when the balanceOf read fails or answers 0; otherwise the ids
\* from 0 up to the first match (break), all of 0 .. 9 without a match
OwnerOfIssued(provider, address, balanceResp, ownerResp) ==
    IF ~provider THEN {}
    ELSE IF ~balanceResp.ok THEN {}
    ELSE IF balanceResp.data = 0 THEN {}
    ELSE LET userTokenId == FindTokenId(address, ownerResp)
         IN  IF userTokenId = NoToken THEN TokenIndices
             ELSE 0 .. userTokenId

\* the responses of the ownerOf reads when the reads of the token ids in
\* `failed` fail in transport; the ledger rejects the read of an id that is
\* not minted
OwnerOfResponses(failed) ==
    [i \in TokenIndices |->
        IF i < Len(profiles) /\ i \notin failed
        THEN Answer(OwnerOfGetter(i))
        ELSE Fail]

\* getUserEvents is called: its getAllEvents call is the scan that returned
GetUserEventsCall ==
    /\ pc = "idle" /\ scan.status = "returned"
    /\ \E userAddress \in UserAddresses :
          rd' = [fn |-> "getUserEvents", status |-> "returned",
                 userAddress |-> userAddress,
                 out |-> GetUserEvents(userAddress, Returned(scan.events))]
    /\ ge' = NoCall /\ ex' = NoCall
    /\ UNCHANGED <<ledger, pc, scan, ce, postVars, writeVars, tribeVars, ctxVars>>

GetTicketBalanceCall ==
    /\ pc = "idle"
    /\ \E address \in UserAddresses : \E i \in 0 .. MaxSlots :
       \E fails \in BOOLEAN :
          LET resp == IF fails THEN Fail
                      ELSE Answer(TicketBalanceGetter(address, i))
          IN  rd' = [fn |-> "getTicketBalance", status |-> "returned",
                     address |-> address, eventId |-> toString(i),
                     resp |-> resp, out |-> GetTicketBalance(resp)]
    /\ CallsReset
    /\ UNCHANGED <<ledger, pc, ce, postVars, writeVars, tribeVars, ctxVars>>

CheckUsernameCall ==
    /\ pc = "idle"
    /\ \E username \in Usernames :
       \E fails \in BOOLEAN :
          LET resp == IF fails THEN Fail
                      ELSE Answer(UsernameExistsGetter(username))
          IN  rd' = [fn |-> "checkUsername", status |-> "returned",
                     username |-> username, resp |-> resp,
                     out |-> CheckUsername(ctx.provider, resp)]
    /\ CallsReset
    /\ UNCHANGED <<ledger, pc, ce, postVars, writeVars, tribeVars, ctxVars>>

GetProfileByAddressCall ==
    /\ pc = "idle"
    /\ \E address \in UserAddresses :
       \E balanceFails \in BOOLEAN :
       \E failed \in SUBSET (0 .. (Min(Len(profiles), MaxProfiles) - 1)) :
       \E profileFails \in BOOLEAN :
          LET balanceResp == IF balanceFails THEN Fail
                             ELSE Answer(ProfileBalanceOfGetter(address))
              ownerResp == OwnerOfResponses(failed)
              userTokenId == FindTokenId(address, ownerResp)
              profileResp ==
                  IF profileFails \/ userTokenId = NoToken THEN Fail
                  ELSE Answer(ProfileByTokenIdGetter(userTokenId))
          IN  rd' = [fn |-> "getProfileByAddress", status |-> "returned",
                     address |-> address, balanceResp |-> balanceResp,
                     ownerFailed |-> failed, profileFails |-> profileFails,
                     ownerOfCalls |-> OwnerOfIssued(ctx.provider, address,
                                          balanceResp, ownerResp),
                     out |-> GetProfileByAddress(ctx.provider, address,
                                 balanceResp, ownerResp, profileResp)]
    /\ CallsReset
    /\ UNCHANGED <<ledger, pc, ce, postVars, writeVars, tribeVars, ctxVars>>

\* event ledgers of the reader runs: two events and a free slot, or an event
\* above a free slot
ReaderLedgers ==
    { [i \in Slots |->
          IF i = 0 THEN <<"{title:A}", "0xAbC1", 2, 1, OneEther, TRUE>>
          ELSE IF i = 1 THEN <<"{title:B}", "0xdEf2", 1, 0, <<1>>, FALSE>>
          ELSE ZeroTuple],
      [i \in Slots |->
          IF i = 1 THEN <<"{title:A}", "0xAbC1", 2, 1, OneEther, TRUE>>
          ELSE ZeroTuple] }

InitReaders ==
    /\ ledger \in ReaderLedgers
    /\ pc = "idle"
    /\ ge = NoCall
    /\ ex = NoCall
    /\ scan = ScanInit
    /\ ce = CeInit
    /\ postIdsByTribe = [t \in {} |-> <<>>]
    /\ gap = [status |-> "none"]
    /\ WriteInit
    /\ TribesInit
    /\ profiles \in ProfileLedgers \cup {CrowdedLedger}
    /\ ctx \in {[CtxNone EXCEPT !.provider = b] : b \in BOOLEAN}
    /\ act = ActInit
    /\ calls = <<>>
    /\ form = FormInit
    /\ rf = RfInit
    /\ rd = NoCall

NextReaders ==
    \/ GetEventCall
    \/ EventExistsCall
    \/ GetAllEventsStart
    \/ GetAllEventsFetch
    \/ GetAllEventsAnswer
    \/ GetAllEventsFailure
    \/ GetAllEventsReturn
    \/ GetUserEventsCall
    \/ GetTicketBalanceCall
    \/ CheckUsernameCall
    \/ GetProfileByAddressCall

SpecReaders == InitReaders /\ [][NextReaders]_vars

(***************************************************************************)
(* The providers (EventsProvider, PostsProvider, ProfileProvider): the     *)
(* refreshes and the write actions.                                        *)
(***************************************************************************)
\* default of the maxEvents parameter of getAllEvents and getUserEvents
DefaultMaxEvents == 20

\* the value of a function that returns nothing
Undefined == [isUndefined |-> TRUE]

\* getAllEvents(provider, chainId, maxEvents) as a function of the indices
\* whose read fails: the scan visits the indices below maxEvents up to the
\* first sentinel that is read, and keeps the valid events it reads
GetAllEvents(failed, maxEvents) ==
    LET stops(i) == i \notin failed /\ ~IsValid(EventOfTuple(toString(i),
                                                              EventsGetter(i)))
        kept == {i \in 0 .. Min(maxEvents - 1, MaxSlots) :
                    /\ \A j \in 0 .. (i - 1) : ~stops(j)
                    /\ i \notin failed
                    /\ ~stops(i)}
        indices == SelectSeq([k \in 1 .. (MaxSlots + 1) |-> k - 1],
                             LAMBDA i : i \in kept)
    IN  Returned([k \in DOMAIN indices |->
                    EventOfTuple(toString(indices[k]),
                                 EventsGetter(indices[k]))])

\* getAllTribes(provider, chainId) as a function of the failing reads
GetAllTribes(countFails, failed) ==
    IF countFails
    THEN Thrown
    ELSE LET results == [k \in 1 .. NextTribeIdGetter |->
                            GetTribeDetails(toString(k - 1),
                                IF (k - 1) \in failed THEN Fail
                                ELSE Answer(TribeDetailsGetter(k - 1))).value]
         IN  Returned(SelectSeq(results, LAMBDA tribe : tribe # Null))

\* getAllPosts(provider, chainId, tribeIds) over the written posts when
\* every read answers, and when every listing read fails
GetAllPosts(tribeIds, listingsFail, now) ==
    IF listingsFail
    THEN Returned(<<>>)
    ELSE LET listed == SelectSeq([k \in DOMAIN store |-> k],
                          LAMBDA k : \E j \in DOMAIN tribeIds :
                              toString(store[k].post.tribeId) = tribeIds[j])
         IN  Returned(SortPosts([k \in DOMAIN listed |->
                          GetPost(toString(listed[k]),
                                  Answer(store[listed[k]].post), now).value]))

\* refreshEvents: the state it leaves when the reads of its two scans fail
\* at the indices failedAll and failedUser
RefreshEvents(c, failedAll, failedUser) ==
    IF ~c.provider THEN c
    ELSE LET fetchedEvents == GetAllEvents(failedAll, DefaultMaxEvents).value
             userEvts == GetUserEvents(c.account,
                             GetAllEvents(failedUser, DefaultMaxEvents)).value
         IN  [c EXCEPT !.allEvents = fetchedEvents,
                       !.userEvents = IF c.account # NoAccount THEN userEvts
                                      ELSE @,
                       !.eventsError = NoError]

\* refreshProfile: the state it leaves when all its reads answer or all fail
RefreshProfile(c, readsFail) ==
    IF ~c.provider \/ c.account = NoAccount
    THEN [c EXCEPT !.profile = Null]
    ELSE LET ownerResp == OwnerOfResponses(IF readsFail
                                           THEN 0 .. (Len(profiles) - 1)
                                           ELSE {})
             userTokenId == FindTokenId(c.account, ownerResp)
             userProfile ==
                 GetProfileByAddress(c.provider, c.account,
                     IF readsFail THEN Fail
                     ELSE Answer(ProfileBalanceOfGetter(c.account)),
                     ownerResp,
                     IF readsFail \/ userTokenId = NoToken THEN Fail
                     ELSE Answer(ProfileByTokenIdGetter(userTokenId)))
         IN  [c EXCEPT !.profile = userProfile.value,
                       !.profileError = NoError]

\* refreshTribes: the state it leaves when the counter read fails or answers
RefreshTribes(c, countFails) ==
    IF ~c.provider THEN c
    ELSE LET fetchedTribes == GetAllTribes(countFails, {})
         IN  IF fetchedTribes.threw
             THEN [c EXCEPT !.tribesError = "Failed to load tribes"]
             ELSE [c EXCEPT !.tribes = fetchedTribes.value,
                            !.tribesError = NoError]

\* refreshPosts: the state it leaves when the listing reads fail or answer
RefreshPosts(c, listingsFail, now) ==
    IF ~c.provider \/ Len(c.tribes) = 0 THEN c
    ELSE LET tribeIds == [k \in DOMAIN c.tribes |-> c.tribes[k].id]
             fetchedPosts == GetAllPosts(tribeIds, listingsFail, now)
         IN  [c EXCEPT !.posts = fetchedPosts.value,
                       !.postsError = NoError]

\* the address signer.getAddress() answers with (checksummed)
SignerAddress == "0xAbC1"

\* the guards in front of the try blocks of the write actions
\* variant: only the signer is looked at
WalletConnected_SignerOnly == ctx.signer
WalletConnected == ctx.signer /\ ctx.isConnected
\* variant: the organizer role is not looked at
OrganizerConnected_NoRole ==
    ctx.isConnected /\ ctx.account # NoAccount /\ ctx.signer
OrganizerConnected ==
    ctx.isConnected /\ ctx.account # NoAccount /\ ctx.signer /\ ctx.isOrganizer
CancelAllowed == ctx.signer /\ ctx.isConnected /\ ctx.isOrganizer
ProfileLoaded == ctx.signer /\ ctx.isConnected /\ ctx.profile # Null

ReadCall(method) == [kind |-> "read", method |-> method]
WriteCall(tx) == [kind |-> "write", method |-> tx.method]

\* a write action is invoked with the provider state its closure holds: a
\* failing guard throws before any call; else the action issues its first
\* call, a read (preRead) or its write
Invoke(name, args, guard, preRead, tx) ==
    /\ act.status = "none"
    /\ IF ~guard
       THEN /\ act' = [ActInit EXCEPT !.status = "returned", !.name = name,
                                      !.args = args, !.closure = ctx,
                                      !.out = Thrown]
            /\ calls' = <<>>
       ELSE IF preRead # ""
       THEN /\ act' = [ActInit EXCEPT !.status = "reading", !.name = name,
                                      !.args = args, !.closure = ctx,
                                      !.tx = tx]
            /\ calls' = <<ReadCall(preRead)>>
       ELSE /\ act' = [ActInit EXCEPT !.status = "submitting", !.name = name,
                                      !.args = args, !.closure = ctx,
                                      !.tx = tx]
            /\ calls' = <<WriteCall(tx)>>
    /\ UNCHANGED <<eventVars, postVars, writeVars, tribeVars, rd, form, rf, profiles, ctx>>

\* the transactions of the write utilities
UpdateEventTx(eventId, eventData) ==
    [method |-> "updateEventMetadata", eventId |-> eventId,
     metadataURI |-> eventData, gasLimit |-> 300000]
PurchaseTicketsTx(eventId, amount, price) ==
    [method |-> "purchaseTickets", eventId |-> eventId, amount |-> amount,
     value |-> ParseEther(price), gasLimit |-> 300000]
CancelEventTx(eventId) ==
    [method |-> "cancelEvent", eventId |-> eventId, gasLimit |-> 300000]
CreateProfileTx(username, metadata) ==
    [method |-> "createProfile", username |-> username,
     metadataURI |-> ProfileMetadataBlob(metadata.name), gasLimit |-> 500000]
UpdateProfileTx(tokenId, metadata) ==
    [method |-> "updateProfileMetadata", tokenId |-> tokenId,
     metadataURI |-> ProfileMetadataBlob(metadata.name), gasLimit |-> 300000]
\* createTribe(signer, chainId, name, description, joinType = Open,
\* entryFee = "0")
CreateTribeTx(name, description, joinType, entryFee, now) ==
    [method |-> "createTribe", name |-> name,
     metadata |-> TribeMetadataBlob(description, now), admins |-> <<>>,
     joinType |-> joinType, entryFee |-> entryFee, nftRequirements |-> <<>>,
     gasLimit |-> 500000]
JoinTribeTx(tribeId) ==
    [method |-> "joinTribe", tribeId |-> tribeId, gasLimit |-> 300000]
RejectMemberTx(tribeId) ==
    [method |-> "rejectMember", tribeId |-> tribeId, gasLimit |-> 300000]

\* event ids, event data and profile metadata the callers pass
EventIdArgs == {toString(i) : i \in 0 .. 2}
ProfileMetadataArgs == {[name |-> "Dave"]}

\* PostsProvider actions
CreateNewTextPost ==
    \E a \in TextPostArgs, now \in Clock :
        Invoke("createNewTextPost",
               [call |-> a,
                metadata |-> CreateTextPostMetadata(a[2], a[3], now)],
               WalletConnected, "",
               CreatePostTx(a[1], CreateTextPostMetadata(a[2], a[3], now)))

CreateNewImagePost ==
    \E a \in ImagePostArgs, now \in Clock :
        Invoke("createNewImagePost",
               [call |-> a,
                metadata |-> CreateImagePostMetadata(a[2], a[3], a[4], now)],
               WalletConnected, "",
               CreatePostTx(a[1],
                   CreateImagePostMetadata(a[2], a[3], a[4], now)))

\* createNewTribe is declared (name, description, joinType?) and implemented
\* as (name, description): a third argument is dropped, and createTribe runs
\* with its defaults joinType = JoinType.Open and entryFee = "0"
CreateNewTribe ==
    \E now \in Clock : \E joinType \in JoinTypes :
        Invoke("createNewTribe", <<"makers", "we make", joinType>>,
               WalletConnected, "",
               CreateTribeTx("makers", "we make", JoinTypeOpen, "0", now))

JoinExistingTribe ==
    \E tribeId \in {toString(0), toString(MaxTribes)} :
        Invoke("joinExistingTribe", <<tribeId>>, WalletConnected, "",
               JoinTribeTx(tribeId))

LeaveTribe ==
    \E tribeId \in {toString(0), toString(MaxTribes)} :
        Invoke("leaveTribe", <<tribeId>>, WalletConnected, "",
               RejectMemberTx(tribeId))

\* EventsProvider actions
CreateNewEvent ==
    \E a \in CreateArgs :
        Invoke("createNewEvent", a, OrganizerConnected, "", CreateEventTx(a))

UpdateEventFunc ==
    \E eventId \in EventIdArgs :
        Invoke("updateEvent", <<eventId, "{title:C}">>, OrganizerConnected,
               "events", UpdateEventTx(eventId, "{title:C}"))

PurchaseEventTickets ==
    \E eventId \in EventIdArgs :
        Invoke("purchaseEventTickets", <<eventId, 1, FormatEther(OneEther)>>,
               WalletConnected, "events",
               PurchaseTicketsTx(eventId, 1, FormatEther(OneEther)))

CancelUserEvent ==
    \E eventId \in EventIdArgs :
        Invoke("cancelUserEvent", <<eventId>>, CancelAllowed, "events",
               CancelEventTx(eventId))

\* ProfileProvider actions
CreateProfile ==
    \E username \in Usernames, metadata \in ProfileMetadataArgs :
        Invoke("createProfile", <<username, metadata>>, WalletConnected,
               "usernameExists", CreateProfileTx(username, metadata))

UpdateProfile ==
    \E metadata \in ProfileMetadataArgs :
        Invoke("updateProfile", <<metadata>>, ProfileLoaded, "",
               UpdateProfileTx(IF ctx.profile = Null THEN <<>>
                               ELSE ctx.profile.tokenId, metadata))

\* the index a decimal id string names
IndexOfId(id) == CHOOSE i \in 0 .. (MaxSlots + MaxTribes + TokenScanLimit) :
                     toString(i) = id

\* the action goes on to its write, returns, or goes on to its refresh
\* (local holds what the action has read into its local variables)
Proceed(local) ==
    /\ act' = [act EXCEPT !.status = "submitting", !.local = local]
    /\ calls' = Append(calls, WriteCall(act.tx))
Finish(local, out) ==
    /\ act' = [act EXCEPT !.status = "returned", !.local = local,
                          !.out = out]
    /\ UNCHANGED calls
ThenRefresh(local, result) ==
    /\ act' = [act EXCEPT !.status = "refreshing", !.local = local,
                          !.result = result]
    /\ UNCHANGED calls

\* the getEvent call the event actions start with, given whether its read
\* fails
CurrentEvent(readFails) ==
    GetEvent(act.tx.eventId,
             IF readFails THEN Fail
             ELSE Answer(EventsGetter(IndexOfId(act.tx.eventId)))).value

\* variant: the organizer of the event is not compared with the signer
UpdateEventAllowed_AnyOrganizer(currentEvent, addressFails) ==
    /\ currentEvent # Null
    /\ ~addressFails
    /\ currentEvent.active

\* the checks of the updateEvent utility before its write: the event is
\* valid, signer.getAddress() answers, the signer is the organizer, the
\* event is active
UpdateEventAllowed(currentEvent, addressFails) ==
    /\ currentEvent # Null
    /\ ~addressFails
    /\ ToLowerCase(currentEvent.organizer) = ToLowerCase(SignerAddress)
    /\ currentEvent.active

\* the checks of purchaseEventTickets before purchaseTickets
PurchaseAllowed(event) ==
    /\ event # Null
    /\ event.active

\* the checks of cancelUserEvent before cancelEvent
CancelEventAllowed(event) ==
    /\ event # Null
    /\ ToLowerCase(event.organizer) = ToLowerCase(ctx.account)

\* updateEvent (utility): a failed check makes the utility return false; the
\* action then refreshes
UpdateEventChecked ==
    /\ act.status = "reading" /\ act.name = "updateEvent"
    /\ \E readFails, addressFails \in BOOLEAN :
          LET currentEvent == CurrentEvent(readFails)
              local == [event |-> currentEvent,
                        addressFails |-> addressFails]
          IN  IF UpdateEventAllowed(currentEvent, addressFails)
              THEN Proceed(local)
              ELSE ThenRefresh(local, Returned(FALSE))
    /\ UNCHANGED <<eventVars, postVars, writeVars, tribeVars, rd, form, rf, profiles, ctx>>

\* purchaseEventTickets: a failed check throws inside the try; the catch
\* returns false
PurchaseChecked ==
    /\ act.status = "reading" /\ act.name = "purchaseEventTickets"
    /\ \E readFails \in BOOLEAN :
          LET event == CurrentEvent(readFails)
          IN  IF PurchaseAllowed(event)
              THEN Proceed([event |-> event])
              ELSE Finish([event |-> event], Returned(FALSE))
    /\ UNCHANGED <<eventVars, postVars, writeVars, tribeVars, rd, form, rf, profiles, ctx>>

\* cancelUserEvent: a failed check throws inside the try; the catch returns
\* false
CancelChecked ==
    /\ act.status = "reading" /\ act.name = "cancelUserEvent"
    /\ \E readFails \in BOOLEAN :
          LET event == CurrentEvent(readFails)
          IN  IF CancelEventAllowed(event)
              THEN Proceed([event |-> event])
              ELSE Finish([event |-> event], Returned(FALSE))
    /\ UNCHANGED <<eventVars, postVars, writeVars, tribeVars, rd, form, rf, profiles, ctx>>

\* variant: the answer of checkUsername is not looked at
UsernameTaken_Ignored(usernameExists) == FALSE
\* createProfile: `if (usernameExists) throw`
UsernameTaken(usernameExists) == usernameExists

\* createProfile: checkUsername answers; a taken name throws, the catch
\* rethrows
CreateProfileChecked ==
    /\ act.status = "reading" /\ act.name = "createProfile"
    /\ \E readFails \in BOOLEAN :
          LET resp == IF readFails THEN Fail
                      ELSE Answer(UsernameExistsGetter(act.tx.username))
              usernameExists == CheckUsername(ctx.provider, resp).value
              local == [usernameExists |-> usernameExists]
          IN  IF UsernameTaken(usernameExists)
              THEN Finish(local, Thrown)
              ELSE Proceed(local)
    /\ UNCHANGED <<eventVars, postVars, writeVars, tribeVars, rd, form, rf, profiles, ctx>>

\* the actions whose catch rethrows
RethrowingActions ==
    {"createNewTextPost", "createNewImagePost", "createNewTribe",
     "joinExistingTribe", "leaveTribe", "createNewEvent", "createProfile"}

\* variant: a failed write is reported as a success
WriteFailed_ReportsSuccess ==
    IF act.name \in {"updateEvent", "purchaseEventTickets", "cancelUserEvent"}
    THEN ThenRefresh(act.local, Returned(TRUE))
    ELSE Finish(act.local, Returned(TRUE))

\* variant: a failed write is handed to the signer again
WriteFailed_Retry ==
    IF Len(calls) < 3
    THEN /\ act' = [act EXCEPT !.status = "submitting"]
         /\ calls' = Append(calls, WriteCall(act.tx))
    ELSE Finish(act.local, Thrown)

\* the write failed (rejected, unreachable or reverted): the posts, tribes,
\* createNewEvent and createProfile actions rethrow, updateProfile returns
\* false, the event utilities return false and their action refreshes
WriteFailed ==
    IF act.name \in RethrowingActions THEN Finish(act.local, Thrown)
    ELSE IF act.name = "updateProfile"
    THEN Finish(act.local, Returned(FALSE))
    ELSE ThenRefresh(act.local, Returned(FALSE))

WriteRejected ==
    /\ act.status = "submitting"
    /\ WriteFailed
    /\ UNCHANGED <<eventVars, postVars, writeVars, tribeVars, rd, form, rf, profiles, ctx>>

\* variant: the function goes on without awaiting tx.wait()
WriteSent_NoWait ==
    /\ act.status = "submitting"
    /\ act' = [act EXCEPT !.status = "refreshing", !.result = Returned(TRUE)]
    /\ UNCHANGED <<eventVars, postVars, writeVars, tribeVars, rd, form, rf, profiles,
                   ctx, calls>>

\* safeContractCall returns the transaction handle; tx.wait() starts
WriteSent ==
    /\ act.status = "submitting"
    /\ act' = [act EXCEPT !.status = "waiting"]
    /\ UNCHANGED <<eventVars, postVars, writeVars, tribeVars, rd, form, rf, profiles,
                   ctx, calls>>

WriteReverted ==
    /\ act.status = "waiting"
    /\ WriteFailed
    /\ UNCHANGED <<eventVars, postVars, writeVars, tribeVars, rd, form, rf, profiles, ctx>>

\* the ledger's side of a write: the first free event slot takes a created
\* event
FreeSlots == {i \in Slots : ledger[i][3] = 0}
FreeSlot == CHOOSE i \in FreeSlots : \A j \in FreeSlots : i <= j

\* the ledger confirms the transaction (it reverts otherwise)
LedgerAccepts(tx) ==
    CASE tx.method = "createEvent" -> FreeSlots # {}
      [] tx.method \in {"updateEventMetadata", "cancelEvent"} ->
            EventsGetter(IndexOfId(tx.eventId))[3] > 0
      [] tx.method = "purchaseTickets" ->
            LET e == EventsGetter(IndexOfId(tx.eventId))
            IN  e[3] > 0 /\ e[6] /\ e[4] + tx.amount <= e[3]
      [] tx.method = "createProfile" -> ~UsernameExistsGetter(tx.username)
      [] tx.method = "updateProfileMetadata" ->
            /\ tx.tokenId # <<>>
            /\ IndexOfId(tx.tokenId) < Len(profiles)
            /\ OwnerOfGetter(IndexOfId(tx.tokenId)) = SignerAddress
      [] tx.method \in {"joinTribe", "rejectMember"} ->
            IndexOfId(tx.tribeId) < Len(tribeLedger)
      [] OTHER -> TRUE

\* the ledgers after the confirmed transaction
EventLedgerAfter(tx) ==
    CASE tx.method = "createEvent" ->
            [ledger EXCEPT ![FreeSlot] = <<tx.metadataURI, SignerAddress,
                                           tx.maxTickets, 0, tx.price, TRUE>>]
      [] tx.method = "updateEventMetadata" ->
            [ledger EXCEPT ![IndexOfId(tx.eventId)][1] = tx.metadataURI]
      [] tx.method = "purchaseTickets" ->
            [ledger EXCEPT ![IndexOfId(tx.eventId)][4] = @ + tx.amount]
      [] tx.method = "cancelEvent" ->
            [ledger EXCEPT ![IndexOfId(tx.eventId)][6] = FALSE]
      [] OTHER -> ledger

ProfilesAfter(tx) ==
    CASE tx.method = "createProfile" ->
            Append(profiles, [owner |-> SignerAddress,
                              username |-> tx.username,
                              metadata |-> tx.metadataURI])
      [] tx.method = "updateProfileMetadata" ->
            [profiles EXCEPT ![IndexOfId(tx.tokenId) + 1].metadata =
                                 tx.metadataURI]
      [] OTHER -> profiles

TribeLedgerAfter(tx) ==
    CASE tx.method = "createTribe" ->
            Append(tribeLedger,
                   [name |-> tx.name, metadata |-> tx.metadata,
                    joinType |-> tx.joinType, entryFee |-> 0,
                    memberCount |-> 1, canMerge |-> FALSE,
                    admin |-> SignerAddress, isActive |-> TRUE])
      [] tx.method = "joinTribe" ->
            [tribeLedger EXCEPT ![IndexOfId(tx.tribeId) + 1].memberCount = @ + 1]
      [] tx.method = "rejectMember" ->
            [tribeLedger EXCEPT ![IndexOfId(tx.tribeId) + 1].memberCount =
                                    IF @ > 0 THEN @ - 1 ELSE 0]
      [] OTHER -> tribeLedger

StoreAfter(tx) ==
    IF tx.method = "createPost"
    THEN Append(store, [post |-> StoredPost(tx),
                        written |-> act.args.metadata])
    ELSE store

\* receipt.logs of the confirmed transaction
ConfirmedLogs(tx) ==
    IF tx.method = "createEvent"
    THEN {<<ParsedOther, ParsedEventCreated(FreeSlot)>>, <<ParsedNull>>}
    ELSE {<<>>}

\* what the action resolves with after its confirmed write
ActionResult(name, logs) ==
    CASE name = "createNewEvent" -> CreateEventResult(logs)
      [] name \in {"updateEvent", "purchaseEventTickets", "cancelUserEvent",
                   "createProfile", "updateProfile"} -> Returned(TRUE)
      [] OTHER -> Returned(Undefined)

\* tx.wait() returns the receipt: joinExistingTribe returns, the other
\* actions go on to their refresh
WriteConfirmed ==
    /\ act.status = "waiting"
    /\ LedgerAccepts(act.tx)
    /\ ledger' = EventLedgerAfter(act.tx)
    /\ profiles' = ProfilesAfter(act.tx)
    /\ tribeLedger' = TribeLedgerAfter(act.tx)
    /\ store' = StoreAfter(act.tx)
    /\ \E logs \in ConfirmedLogs(act.tx) :
          IF act.name = "joinExistingTribe"
          THEN act' = [act EXCEPT !.status = "returned", !.confirmed = TRUE,
                                  !.out = ActionResult(act.name, logs)]
          ELSE act' = [act EXCEPT !.status = "refreshing", !.confirmed = TRUE,
                                  !.result = ActionResult(act.name, logs)]
    /\ UNCHANGED calls
    /\ UNCHANGED <<pc, ge, ex, scan, ce, postVars, cp, gp, gat, rd, form, rf, ctx>>

\* the action returns what its utility gave it after the refresh
Refreshed(reads) ==
    /\ act' = [act EXCEPT !.status = "returned", !.out = act.result]
    /\ calls' = calls \o reads
    /\ UNCHANGED <<eventVars, postVars, writeVars, tribeVars, rd, form, rf, profiles>>

\* await refreshEvents()
RefreshEventsDone ==
    /\ act.status = "refreshing"
    /\ act.name \in {"createNewEvent", "updateEvent", "purchaseEventTickets",
                     "cancelUserEvent"}
    /\ \E allFail, userFail \in BOOLEAN :
          ctx' = RefreshEvents(ctx, IF allFail THEN Slots ELSE {},
                               IF userFail THEN Slots ELSE {})
    /\ Refreshed(IF ~ctx.provider THEN <<>>
                 ELSE IF ctx.account = NoAccount THEN <<ReadCall("events")>>
                 ELSE <<ReadCall("events"), ReadCall("events")>>)

\* await refreshProfile()
RefreshProfileDone ==
    /\ act.status = "refreshing"
    /\ act.name \in {"createProfile", "updateProfile"}
    /\ \E readsFail \in BOOLEAN : ctx' = RefreshProfile(ctx, readsFail)
    /\ Refreshed(IF ~ctx.provider \/ ctx.account = NoAccount THEN <<>>
                 ELSE <<ReadCall("balanceOf")>>)

\* await refreshTribes()
RefreshTribesDone ==
    /\ act.status = "refreshing"
    /\ act.name \in {"createNewTribe", "leaveTribe"}
    /\ \E countFails \in BOOLEAN : ctx' = RefreshTribes(ctx, countFails)
    /\ Refreshed(IF ~ctx.provider THEN <<>>
                 ELSE <<ReadCall("nextTribeId")>>)

\* await refreshPosts()
RefreshPostsDone ==
    /\ act.status = "refreshing"
    /\ act.name \in {"createNewTextPost", "createNewImagePost"}
    /\ \E listingsFail \in BOOLEAN, now \in Clock :
          ctx' = RefreshPosts(ctx, listingsFail, now)
    /\ Refreshed(IF ~ctx.provider \/ Len(ctx.tribes) = 0 THEN <<>>
                 ELSE <<ReadCall("getPostsByTribe")>>)

\* the address of another writer
OtherWriter == "0x9F9f"

\* another account's createProfile of the same username is confirmed while
\* the action is between its check and the end of its write
OtherWriterTakesName ==
    /\ act.name = "createProfile"
    /\ act.status \in {"reading", "submitting", "waiting"}
    /\ ~UsernameExistsGetter(act.tx.username)
    /\ profiles' = Append(profiles,
                          [owner |-> OtherWriter, username |-> act.tx.username,
                           metadata |-> ProfileMetadataBlob("Other")])
    /\ UNCHANGED <<eventVars, postVars, writeVars, tribeVars, rd, form, rf, ctx, act,
                   calls>>

\* the ledgers the providers run against
ProviderWorlds ==
    { [ledger |-> [i \in Slots |->
          IF i = 0 THEN <<"{title:A}", "0xAbC1", 2, 1, OneEther, TRUE>>
          ELSE IF i = 1 THEN <<"{title:B}", "0xdEf2", 1, 0, <<1>>, FALSE>>
          ELSE ZeroTuple],
       profiles |-> <<[owner |-> "0xdEf2", username |-> "bob",
                       metadata |-> CorruptBlob]>>],
      [ledger |-> [i \in Slots |->
          IF i = 0 THEN <<"{title:B}", "0xdEf2", 2, 0, <<1>>, TRUE>>
          ELSE IF i = 1 THEN <<"{title:A}", "0xAbC1", 1, 1, OneEther, FALSE>>
          ELSE ZeroTuple],
       profiles |-> <<[owner |-> "0xAbC1", username |-> "alice",
                       metadata |-> ProfileMetadataBlob("Alice")]>>] }

ProviderTribeLedger ==
    <<[name |-> "builders", metadata |-> TribeMetadataBlob("we build", 1),
       joinType |-> 0, entryFee |-> 0, memberCount |-> 2, canMerge |-> TRUE,
       admin |-> "0xAbC1", isActive |-> TRUE]>>

\* the profile the provider caches for the owner of token 0
CachedProfile ==
    [tokenId |-> toString(0), username |-> "alice",
     metadata |-> ParseMetadata(ProfileMetadataBlob("Alice")),
     owner |-> "0xabc1"]

\* the tribes the provider caches after a load
CachedTribes ==
    <<GetTribeDetails(toString(0), Answer(ProviderTribeLedger[1])).value>>

\* provider states at the time an action is invoked: a signer exists only
\* with a provider
ProviderStates ==
    { [CtxNone EXCEPT !.provider = w[1], !.signer = w[2], !.isConnected = c,
                      !.account = a, !.isOrganizer = o, !.profile = p,
                      !.tribes = t] :
        w \in {<<FALSE, FALSE>>, <<TRUE, FALSE>>, <<TRUE, TRUE>>},
        c \in BOOLEAN, a \in {NoAccount, "0xabc1", "0xdef2"},
        o \in BOOLEAN, p \in {Null, CachedProfile},
        t \in {<<>>, CachedTribes} }

InitProviders ==
    /\ \E world \in ProviderWorlds :
          ledger = world.ledger /\ profiles = world.profiles
    /\ pc = "idle"
    /\ ge = NoCall
    /\ ex = NoCall
    /\ scan = ScanInit
    /\ ce = CeInit
    /\ postIdsByTribe = [t \in {} |-> <<>>]
    /\ gap = GapInit
    /\ WriteInit
    /\ tribeLedger = ProviderTribeLedger
    /\ gat = GatInit
    /\ rd = NoCall
    /\ ctx \in ProviderStates
    /\ act = ActInit
    /\ calls = <<>>
    /\ form = FormInit
    /\ rf = RfInit

NextProviders ==
    \/ CreateNewTextPost
    \/ CreateNewImagePost
    \/ CreateNewTribe
    \/ JoinExistingTribe
    \/ LeaveTribe
    \/ CreateNewEvent
    \/ UpdateEventFunc
    \/ PurchaseEventTickets
    \/ CancelUserEvent
    \/ CreateProfile
    \/ UpdateProfile
    \/ UpdateEventChecked
    \/ PurchaseChecked
    \/ CancelChecked
    \/ CreateProfileChecked
    \/ WriteRejected
    \/ WriteSent
    \/ WriteReverted
    \/ WriteConfirmed
    \/ RefreshEventsDone
    \/ RefreshProfileDone
    \/ RefreshTribesDone
    \/ RefreshPostsDone
    \/ OtherWriterTakesName

SpecProviders == InitProviders /\ [][NextProviders]_vars

(***************************************************************************)
(* The CreateTribeForm component: its state, its change handlers, and      *)
(* handleSubmit around the awaited createNewTribe call.                    *)
(***************************************************************************)
\* createNewTribe calls the form starts in one run
MaxSubmits == 2

RequiredMessage == "Name and description are required"
FailedMessage == "Failed to create tribe. Please try again."

\* what the user types into the name input and the description textarea
FormNames == {"", "makers"}
FormDescriptions == {"", "we make"}
\* the join types the two buttons of the form select
FormJoinTypes == {JoinType.Open, JoinType.Approval}

formOthers == <<eventVars, postVars, writeVars, tribeVars, rd, profiles, ctx,
                act, calls, rf>>

\* onChange of the name input
SetName ==
    /\ \E value \in FormNames : form' = [form EXCEPT !.name = value]
    /\ UNCHANGED formOthers

\* onChange of the description textarea
SetDescription ==
    /\ \E value \in FormDescriptions :
          form' = [form EXCEPT !.description = value]
    /\ UNCHANGED formOthers

\* onClick of the Open and Approval buttons
SetJoinType ==
    /\ \E joinType \in FormJoinTypes :
          form' = [form EXCEPT !.joinType = joinType]
    /\ UNCHANGED formOthers

\* variant: the submit button is never disabled
SubmitEnabled_Always == TRUE

\* the submit button carries disabled={isSubmitting}: while it is disabled the
\* form raises no submit event
SubmitEnabled == ~form.isSubmitting

\* handleSubmit up to its await: the fields are tested, then error is reset,
\* isSubmitting set and createNewTribe(name, description, joinType) called
HandleSubmit ==
    /\ SubmitEnabled
    /\ IF form.name = "" \/ form.description = ""
       THEN form' = [form EXCEPT !.error = RequiredMessage]
       ELSE /\ Len(form.started) < MaxSubmits
            /\ form' = [form EXCEPT
                   !.error = NoError,
                   !.isSubmitting = TRUE,
                   !.started = Append(@,
                       [args |-> <<form.name, form.description, form.joinType>>,
                        state |-> "pending"])]
    /\ UNCHANGED formOthers

\* the awaited createNewTribe call resolves: the fields are cleared, and the
\* finally block resets isSubmitting
CreateNewTribeResolved ==
    /\ \E k \in DOMAIN form.started :
          /\ form.started[k].state = "pending"
          /\ form' = [form EXCEPT !.started[k].state = "resolved",
                                  !.name = "",
                                  !.description = "",
                                  !.joinType = JoinType.Open,
                                  !.isSubmitting = FALSE]
    /\ UNCHANGED formOthers

\* the awaited createNewTribe call rejects: the catch sets the error, and the
\* finally block resets isSubmitting
CreateNewTribeRejected ==
    /\ \E k \in DOMAIN form.started :
          /\ form.started[k].state = "pending"
          /\ form' = [form EXCEPT !.started[k].state = "rejected",
                                  !.error = FailedMessage,
                                  !.isSubmitting = FALSE]
    /\ UNCHANGED formOthers

InitForm ==
    /\ ledger = [i \in Slots |-> ZeroTuple]
    /\ pc = "idle"
    /\ ge = NoCall
    /\ ex = NoCall
    /\ scan = ScanInit
    /\ ce = CeInit
    /\ postIdsByTribe = [t \in {} |-> <<>>]
    /\ gap = GapInit
    /\ ExtInit

NextForm ==
    \/ SetName
    \/ SetDescription
    \/ SetJoinType
    \/ HandleSubmit
    \/ CreateNewTribeResolved
    \/ CreateNewTribeRejected

SpecForm == InitForm /\ [][NextForm]_vars

(***************************************************************************)
(* The EventsProvider under wallet changes: the effect that starts         *)
(* checkOrganizerRole and refreshEvents when the provider or the account   *)
(* changes, refreshEvents called through the context, and the calls in     *)
(* flight resuming in any order.                                           *)
(***************************************************************************)
\* calls of one provider in flight at a time
MaxInFlight == 5

\* the accounts the wallet switches between
WalletAccounts == {"0xAbC1", "0xdEf2"}

\* the RoleManager `hasRole(account, ORGANIZER_ROLE)` read
Organizers == {"0xAbC1"}
HasRoleGetter(account) == account \in Organizers

RemoveAt(seq, k) == SubSeq(seq, 1, k - 1) \o SubSeq(seq, k + 1, Len(seq))

\* a call in flight: the account of the render that started it, the await it
\* is suspended at, and whether it is the most recently started of its kind
Op(fn, account, stage) ==
    [fn |-> fn, account |-> account, stage |-> stage, newest |-> TRUE]

\* a started call is appended; the calls of its kind started before it are
\* no longer the newest
Started(ops, op) ==
    Append([k \in DOMAIN ops |->
               IF ops[k].fn = op.fn THEN [ops[k] EXCEPT !.newest = FALSE]
               ELSE ops[k]],
           op)

\* checkOrganizerRole() up to its await, on the provider state c and the
\* flags r
CheckOrganizerRoleCall(st) ==
    IF ~st.c.provider \/ st.c.account = NoAccount
    THEN [c |-> [st.c EXCEPT !.isOrganizer = FALSE],
          r |-> [st.r EXCEPT !.loadingRole = FALSE]]
    ELSE [c |-> st.c,
          r |-> [st.r EXCEPT
                   !.loadingRole = TRUE,
                   !.ops = Started(@, Op("checkOrganizerRole", st.c.account,
                                         "hasRole"))]]

\* refreshEvents() up to its first await
RefreshEventsCall(st) ==
    IF ~st.c.provider
    THEN st
    ELSE [c |-> [st.c EXCEPT !.eventsError = NoError],
          r |-> [st.r EXCEPT
                   !.loading = TRUE,
                   !.ops = Started(@, Op("refreshEvents", st.c.account,
                                         "getAllEvents"))]]

\* the effect on [provider, account]
EventsEffect(st) ==
    IF st.c.provider /\ st.c.account # NoAccount
    THEN RefreshEventsCall(CheckOrganizerRoleCall(st))
    ELSE st

sessionOthers == <<eventVars, postVars, writeVars, tribeVars, rd, profiles,
                   act, calls, form>>
sessionFixed == <<pc, ge, ex, scan, ce, postVars, writeVars, tribeVars, rd,
                  profiles, act, calls, form>>

\* the wallet reports another account, or none: the effect on [isConnected,
\* account] replaces the provider and the signer, and the effect on
\* [provider, account] runs in the render with the new account and again in
\* the render with the new provider
AccountChanged ==
    /\ \E account \in WalletAccounts \cup {NoAccount} :
          /\ account # ctx.account
          /\ account # NoAccount => Len(rf.ops) + 4 <= MaxInFlight
          /\ LET st == [c |-> [ctx EXCEPT !.account = account,
                                          !.isConnected = account # NoAccount,
                                          !.signer = account # NoAccount],
                        r |-> rf]
                 after == EventsEffect(EventsEffect(st))
             IN  ctx' = after.c /\ rf' = after.r
    /\ UNCHANGED <<ledger, sessionFixed>>

\* a consumer of the context calls refreshEvents
RefreshEventsInvoked ==
    /\ Len(rf.ops) < MaxInFlight
    /\ LET after == RefreshEventsCall([c |-> ctx, r |-> rf])
       IN  ctx' = after.c /\ rf' = after.r
    /\ UNCHANGED <<ledger, sessionFixed>>

\* the awaited hasRole of a checkOrganizerRole call answers or throws: the
\* flag is set to the answer, or to false in the catch
CheckOrganizerRoleDone ==
    /\ \E k \in DOMAIN rf.ops : \E fails \in BOOLEAN :
          /\ rf.ops[k].fn = "checkOrganizerRole"
          /\ LET hasOrganizerRole ==
                     IF fails THEN FALSE ELSE HasRoleGetter(rf.ops[k].account)
             IN  ctx' = [ctx EXCEPT !.isOrganizer = hasOrganizerRole]
          /\ rf' = [rf EXCEPT !.loadingRole = FALSE, !.ops = RemoveAt(@, k)]
    /\ UNCHANGED <<ledger, sessionFixed>>

\* the awaited getAllEvents of a refreshEvents call returns (it returns the
\* events it could read, [] in its catch): allEvents is set; the call goes
\* on to getUserEvents when its render had an account, and ends otherwise
AllEventsFetched ==
    /\ \E k \in DOMAIN rf.ops : \E allFail \in BOOLEAN :
          /\ rf.ops[k].fn = "refreshEvents"
          /\ rf.ops[k].stage = "getAllEvents"
          /\ LET fetchedEvents ==
                     GetAllEvents(IF allFail THEN Slots ELSE {},
                                  DefaultMaxEvents).value
             IN  /\ ctx' = [ctx EXCEPT !.allEvents = fetchedEvents]
                 /\ rf' = IF rf.ops[k].account # NoAccount
                          THEN [rf EXCEPT !.ops[k].stage = "getUserEvents"]
                          ELSE [rf EXCEPT !.loading = FALSE,
                                          !.ops = RemoveAt(@, k)]
    /\ UNCHANGED <<ledger, sessionFixed>>

\* the awaited getUserEvents of a refreshEvents call returns: userEvents is
\* set and the finally block clears loading
UserEventsFetched ==
    /\ \E k \in DOMAIN rf.ops : \E userFail \in BOOLEAN :
          /\ rf.ops[k].fn = "refreshEvents"
          /\ rf.ops[k].stage = "getUserEvents"
          /\ LET userEvts ==
                     GetUserEvents(rf.ops[k].account,
                         GetAllEvents(IF userFail THEN Slots ELSE {},
                                      DefaultMaxEvents)).value
             IN  ctx' = [ctx EXCEPT !.userEvents = userEvts]
          /\ rf' = [rf EXCEPT !.loading = FALSE, !.ops = RemoveAt(@, k)]
    /\ UNCHANGED <<ledger, sessionFixed>>

\* a createEvent transaction of the first account, sent from any client,
\* is confirmed on the ledger
LedgerEventCreated ==
    /\ FreeSlots # {}
    /\ ledger' = [ledger EXCEPT
                     ![FreeSlot] = <<"{title:C}", "0xAbC1", 3, 0, <<1>>, TRUE>>]
    /\ UNCHANGED <<sessionFixed, ctx, rf>>

\* the EventsProvider is mounted with a provider and no account; the ledger
\* holds an event of each account
InitEventsProvider ==
    /\ ledger = [i \in Slots |->
          IF i = 0 THEN <<"{title:A}", "0xAbC1", 2, 1, OneEther, TRUE>>
          ELSE IF i = 1 THEN <<"{title:B}", "0xdEf2", 1, 0, <<1>>, FALSE>>
          ELSE ZeroTuple]
    /\ pc = "idle"
    /\ ge = NoCall
    /\ ex = NoCall
    /\ scan = ScanInit
    /\ ce = CeInit
    /\ postIdsByTribe = [t \in {} |-> <<>>]
    /\ gap = GapInit
    /\ WriteInit
    /\ TribesInit
    /\ profiles = <<>>
    /\ rd = NoCall
    /\ ctx = [CtxNone EXCEPT !.provider = TRUE]
    /\ act = ActInit
    /\ calls = <<>>
    /\ form = FormInit
    /\ rf = RfInit

NextEventsProvider ==
    \/ AccountChanged
    \/ RefreshEventsInvoked
    \/ CheckOrganizerRoleDone
    \/ AllEventsFetched
    \/ UserEventsFetched
    \/ LedgerEventCreated

SpecEventsProvider == InitEventsProvider /\ [][NextEventsProvider]_vars

(***************************************************************************)
(* The ProfileProvider under wallet changes: the effect that starts        *)
(* refreshProfile, refreshProfile called through the context, and the      *)
(* calls in flight resuming in any order.                                  *)
(***************************************************************************)
\* refreshProfile() up to its await
RefreshProfileCall(st) ==
    IF ~st.c.provider \/ st.c.account = NoAccount
    THEN [c |-> [st.c EXCEPT !.profile = Null],
          r |-> [st.r EXCEPT !.loading = FALSE]]
    ELSE [c |-> [st.c EXCEPT !.profileError = NoError],
          r |-> [st.r EXCEPT
                   !.loading = TRUE,
                   !.ops = Started(@, Op("refreshProfile", st.c.account,
                                         "getProfileByAddress"))]]

\* the effect on [provider, account]
ProfileEffect(st) ==
    IF st.c.provider /\ st.c.account # NoAccount
    THEN RefreshProfileCall(st)
    ELSE st

profileFixed == <<eventVars, postVars, writeVars, tribeVars, rd, profiles,
                  act, calls, form>>

\* the wallet reports another account, or none: the effect on [isConnected,
\* account] replaces the provider and the signer, and the effect on
\* [provider, account] runs in the render with the new account and again in
\* the render with the new provider
ProfileAccountChanged ==
    /\ \E account \in WalletAccounts \cup {NoAccount} :
          /\ account # ctx.account
          /\ account # NoAccount => Len(rf.ops) + 2 <= MaxInFlight
          /\ LET st == [c |-> [ctx EXCEPT !.account = account,
                                          !.isConnected = account # NoAccount,
                                          !.signer = account # NoAccount],
                        r |-> rf]
                 after == ProfileEffect(ProfileEffect(st))
             IN  ctx' = after.c /\ rf' = after.r
    /\ UNCHANGED profileFixed

\* a consumer of the context calls refreshProfile
RefreshProfileInvoked ==
    /\ Len(rf.ops) < MaxInFlight
    /\ LET after == RefreshProfileCall([c |-> ctx, r |-> rf])
       IN  ctx' = after.c /\ rf' = after.r
    /\ UNCHANGED profileFixed

\* the awaited getProfileByAddress(account) of a refreshProfile call returns
\* (null when a read failed): the profile is set and the finally block
\* clears loading
ProfileFetched ==
    /\ \E k \in DOMAIN rf.ops : \E readsFail \in BOOLEAN :
          /\ rf.ops[k].fn = "refreshProfile"
          /\ LET userProfile ==
                     RefreshProfile([ctx EXCEPT !.account = rf.ops[k].account],
                                    readsFail).profile
             IN  ctx' = [ctx EXCEPT !.profile = userProfile]
          /\ rf' = [rf EXCEPT !.loading = FALSE, !.ops = RemoveAt(@, k)]
    /\ UNCHANGED profileFixed

\* the ProfileProvider is mounted with a provider and no account; the first
\* account owns profile token 0, the second owns none
InitProfileProvider ==
    /\ ledger = [i \in Slots |-> ZeroTuple]
    /\ pc = "idle"
    /\ ge = NoCall
    /\ ex = NoCall
    /\ scan = ScanInit
    /\ ce = CeInit
    /\ postIdsByTribe = [t \in {} |-> <<>>]
    /\ gap = GapInit
    /\ WriteInit
    /\ TribesInit
    /\ profiles = <<[owner |-> "0xAbC1", username |-> "alice",
                     metadata |-> ProfileMetadataBlob("Alice")]>>
    /\ rd = NoCall
    /\ ctx = [CtxNone EXCEPT !.provider = TRUE]
    /\ act = ActInit
    /\ calls = <<>>
    /\ form = FormInit
    /\ rf = RfInit

NextProfileProvider ==
    \/ ProfileAccountChanged
    \/ RefreshProfileInvoked
    \/ ProfileFetched

SpecProfileProvider == InitProfileProvider /\ [][NextProfileProvider]_vars

(***************************************************************************)
(* Properties of the event readers.                                        *)
(***************************************************************************)
ScanReturned == scan.status = "returned"
ScanRunning == scan.status \in {"test", "await"}
LogIndex(k) == scan.log[k].index
NoFailure == \A k \in DOMAIN scan.log : scan.log[k].outcome # "fail"
InResult(i) == \E k \in DOMAIN scan.events : scan.events[k].id = toString(i)
TupleIsSentinel(t) == t[3] = 0
\* the lowest index at which the ledger holds a sentinel tuple
FirstSentinel ==
    CHOOSE n \in 0 .. MaxSlots :
        /\ TupleIsSentinel(EventsGetter(n))
        /\ \A j \in 0 .. (n - 1) : ~TupleIsSentinel(EventsGetter(j))
\* the event a reader is to build for index i of the ledger
ExpectedEvent(i) ==
    LET t == EventsGetter(i)
    IN  [id |-> toString(i), metadataURI |-> t[1], organizer |-> t[2],
         maxTickets |-> t[3], ticketsSold |-> t[4],
         price |-> FormatEther(t[5]), active |-> t[6]]

\* C1: getEvent on a tuple with maxTickets = 0 returns null and does not
\* throw; on a tuple with maxTickets > 0 it returns an Event with the id asked
\* for and the tuple's fields (the price as the ether amount of the wei value).
C1_GetEventSentinelRule ==
    (ge.status = "returned" /\ ge.resp.ok) =>
        LET t == ge.resp.data
            v == ge.out.value
        IN  /\ ~ge.out.threw
            /\ t[3] = 0 => v = Null
            /\ t[3] > 0 =>
                  /\ v # Null
                  /\ v.id = ge.id
                  /\ v.metadataURI = t[1]
                  /\ v.organizer = t[2]
                  /\ v.maxTickets = t[3]
                  /\ v.ticketsSold = t[4]
                  /\ ParseEther(v.price) = t[5]
                  /\ v.active = t[6]

\* a sentinel tuple whose other fields are not zero was read as null
C1_Witness ==
    /\ ge.status = "returned" /\ ge.resp.ok
    /\ ge.resp.data[3] = 0 /\ ge.resp.data[6] = TRUE
    /\ ge.out = [threw |-> FALSE, value |-> Null]

\* C2: with valid events at 0..n-1, a sentinel at n < maxEvents and no failed
\* fetch, getAllEvents returns exactly the events 0..n-1 in index order.
C2_ValidPrefixReturned ==
    (ScanReturned /\ NoFailure /\ FirstSentinel < scan.maxEvents) =>
        scan.events = [k \in 1 .. FirstSentinel |-> ExpectedEvent(k - 1)]

\* valid at 0,1,2, sentinel at 3: exactly the events 0,1,2
C2_Witness ==
    /\ ScanReturned /\ NoFailure
    /\ FirstSentinel = 3 /\ scan.maxEvents > 3
    /\ Len(scan.events) = 3
    /\ \A k \in 1 .. 3 : scan.events[k].id = toString(k - 1)

C3_Safety ==
    /\ Len(scan.events) <= scan.maxEvents
    /\ \A k \in DOMAIN scan.log : LogIndex(k) < scan.maxEvents
    /\ \A k, l \in DOMAIN scan.log : k < l => LogIndex(k) < LogIndex(l)

\* C3: getAllEvents returns at most maxEvents events, never fetches index
\* maxEvents or higher, fetches each index at most once, and terminates
\* whatever the responses are.
C3_BoundedScanTerminates ==
    /\ []C3_Safety
    /\ (ScanRunning ~> ScanReturned)

\* a scan that met only failures ran through all maxEvents indices
C3_Witness ==
    /\ ScanReturned /\ scan.maxEvents = MaxEventsArg
    /\ Len(scan.log) = scan.maxEvents
    /\ \A k \in DOMAIN scan.log : scan.log[k].outcome = "fail"

\* C4: a failed fetch at index k (k+1 < maxEvents) does not end the scan:
\* k is not in the result, k+1 is fetched, and is in the result if valid.
C4_FailureSkipsIndex ==
    ScanReturned =>
        \A k \in DOMAIN scan.log :
            (scan.log[k].outcome = "fail" /\ LogIndex(k) + 1 < scan.maxEvents) =>
                /\ ~InResult(LogIndex(k))
                /\ k + 1 \in DOMAIN scan.log
                /\ LogIndex(k + 1) = LogIndex(k) + 1
                /\ scan.log[k + 1].outcome = "valid" => InResult(LogIndex(k) + 1)

\* valid at 0,1,2, sentinel at 3, failure at 1: exactly the events 0 and 2
C4_Witness ==
    /\ ScanReturned
    /\ FirstSentinel = 3
    /\ Len(scan.log) = 4
    /\ scan.log[2].outcome = "fail"
    /\ Len(scan.events) = 2
    /\ scan.events[1].id = toString(0) /\ scan.events[2].id = toString(2)

\* C5: once the fetch at index i answers with a sentinel the scan has stopped:
\* no higher index is fetched and no event with a higher id is in the result,
\* even if valid events exist above i.
C5_SentinelStopsScan ==
    \A k \in DOMAIN scan.log :
        scan.log[k].outcome = "sentinel" =>
            /\ ScanReturned
            /\ k = Len(scan.log)
            /\ \A j \in DOMAIN scan.log : LogIndex(j) <= LogIndex(k)
            /\ \A i \in (LogIndex(k) + 1) .. MaxSlots : ~InResult(i)

\* the scan stopped at a sentinel below a valid event
C5_Witness ==
    /\ ScanReturned
    /\ \E k \in DOMAIN scan.log :
          /\ scan.log[k].outcome = "sentinel"
          /\ LogIndex(k) + 1 < scan.maxEvents
          /\ ~TupleIsSentinel(EventsGetter(LogIndex(k) + 1))

\* the single-entity readers on index i of the same ledger, no failure
GetEventReturnsEvent(i) ==
    GetEvent(toString(i), Answer(EventsGetter(i))).value # Null
EventExistsTrue(i) ==
    EventExists(toString(i), Answer(EventsGetter(i))).value

\* C6 as stated: with no transport failure, getEvent(id) returns an event
\* (and eventExists(id) is true) iff getAllEvents(maxEvents) contains id,
\* for every id < maxEvents.
C6_ReadersAgree ==
    (ScanReturned /\ NoFailure) =>
        \A i \in 0 .. (scan.maxEvents - 1) :
            /\ GetEventReturnsEvent(i) <=> InResult(i)
            /\ EventExistsTrue(i) <=> InResult(i)

\* C6 amended: getAllEvents(maxEvents) contains id iff getEvent returns an
\* event (and eventExists is true) for id and for every lower index.
C6_ReadersAgreeBelowFirstSentinel ==
    (ScanReturned /\ NoFailure) =>
        \A i \in 0 .. (scan.maxEvents - 1) :
            /\ InResult(i) <=> \A j \in 0 .. i : GetEventReturnsEvent(j)
            /\ InResult(i) <=> \A j \in 0 .. i : EventExistsTrue(j)

\* an event getEvent finds above a sentinel is missing from the scan, and
\* an event below the sentinel is in it
C6_Witness ==
    /\ ScanReturned /\ NoFailure
    /\ \E i, j \in 0 .. (scan.maxEvents - 1) :
          /\ GetEventReturnsEvent(i) /\ EventExistsTrue(i) /\ ~InResult(i)
          /\ GetEventReturnsEvent(j) /\ EventExistsTrue(j) /\ InResult(j)

(***************************************************************************)
(* Properties of createEvent.                                              *)
(***************************************************************************)
CreateEventConfirmedDone == ce.status = "returned" /\ ce.confirmed
LogMatches(k) ==
    ce.logs[k].parse = "event" /\ ce.logs[k].name = "EventCreated"
HasMatch == \E k \in DOMAIN ce.logs : LogMatches(k)
FirstMatch ==
    CHOOSE k \in DOMAIN ce.logs :
        LogMatches(k) /\ \A j \in 1 .. (k - 1) : ~LogMatches(j)

\* C7: after a confirmed createEvent the returned identifier is the first
\* argument of the first log named EventCreated, wherever that log stands;
\* earlier logs of another name, undecodable or failing to decode are skipped.
C7_IdOfFirstMatchingLog ==
    CreateEventConfirmedDone =>
        /\ ~ce.out.threw
        /\ HasMatch => ce.out.value = ce.logs[FirstMatch].args[1]

\* two logs, only the second is EventCreated: the second log's id is returned
C7_Witness ==
    /\ CreateEventConfirmedDone
    /\ Len(ce.logs) = 2
    /\ ce.logs[1] = ParsedOther
    /\ ce.logs[2] = ParsedEventCreated(2)
    /\ ce.out = [threw |-> FALSE, value |-> 2]

\* C8: with no EventCreated log in the confirmed receipt, the outcome of
\* createEvent differs from every outcome it has for an extracted identifier.
C8_NoFabricatedId ==
    (CreateEventConfirmedDone /\ ~HasMatch) =>
        \A id \in CreatedIds : ~(~ce.out.threw /\ ce.out.value = id)

(***************************************************************************)
(* Properties of getAllPosts.                                              *)
(***************************************************************************)
GapReturned == gap.status = "returned"
\* the ids the ledger lists for the k-th tribe of tribeIds under the limit
ListedIds(k) == PostsByTribeGetter(gap.tribeIds[k], 0, gap.limit).postIds
ListingFailed(k) == gap.listed[k] = "fail"
ListingSucceeded(k) == gap.listed[k] = "ok"
NoPostFetchFailed ==
    \A k \in DOMAIN gap.fetchPromises : gap.fetchPromises[k].state # "rejected"
\* how often the succeeding tribes list a post id
TimesListed(id) ==
    Cardinality({kj \in (DOMAIN gap.listed) \X PostIds :
                    /\ ListingSucceeded(kj[1])
                    /\ kj[2] \in DOMAIN ListedIds(kj[1])
                    /\ ListedIds(kj[1])[kj[2]] = id})
\* how often a post id is in the returned list
TimesReturned(id) ==
    Cardinality({k \in DOMAIN gap.out.value :
                    gap.out.value[k].id = toString(id)})
\* a returned post carries the stored fields of its id
CarriesStoredFields(post, id) ==
    /\ post.id = toString(id)
    /\ post.creator = PostData(id).creator
    /\ post.tribeId = toString(PostData(id).tribeId)
    /\ post.isGated = PostData(id).isGated
    /\ post.collectibleId = toString(PostData(id).collectibleId)

\* C9: when the listing call fails for a tribe and every other call succeeds,
\* getAllPosts throws nothing and returns exactly the posts of the succeeding
\* tribes; the failing tribe contributes none.
C9_ListingFailureIsolated ==
    (/\ GapReturned
     /\ \E k \in DOMAIN gap.listed : ListingFailed(k)
     /\ NoPostFetchFailed) =>
        /\ ~gap.out.threw
        /\ Len(gap.listed) = Len(gap.tribeIds)
        /\ \A id \in PostIds : TimesReturned(id) = TimesListed(id)
        /\ \A k \in DOMAIN gap.out.value : \E id \in PostIds :
              CarriesStoredFields(gap.out.value[k], id)

\* one tribe of three failed although it has posts: the three posts of the
\* other two tribes are returned
C9_Witness ==
    /\ GapReturned /\ ~gap.out.threw
    /\ Len(gap.tribeIds) = 3
    /\ \E k \in 1 .. 3 :
          /\ ListingFailed(k)
          /\ Len(ListedIds(k)) > 0
          /\ \A j \in (1 .. 3) \ {k} : ListingSucceeded(j) /\ Len(ListedIds(j)) > 0
    /\ Len(gap.out.value) = 3

\* C10: a failed fetch of one post listed under one tribe does not abort the
\* composition: getAllPosts returns, without throwing, the posts of every
\* other tribe.
C10_PostFailureIsolated ==
    (/\ GapReturned
     /\ \E k \in DOMAIN gap.fetchPromises :
           gap.fetchPromises[k].state = "rejected") =>
        /\ ~gap.out.threw
        /\ \A k \in DOMAIN gap.fetchPromises :
              (\A j \in DOMAIN gap.fetchPromises :
                   gap.fetchPromises[j].tribe = gap.fetchPromises[k].tribe
                       => gap.fetchPromises[j].state # "rejected")
              => \E n \in DOMAIN gap.out.value :
                     gap.out.value[n].id = gap.fetchPromises[k].postId

\* the posts Promise.all hands to the sort, in fetchPromises order
FetchedPosts == [k \in DOMAIN gap.fetchPromises |-> gap.fetchPromises[k].value]
CreatedAtOf(post) == GetTime(post.metadata.createdAt)

\* C11: whenever getAllPosts returns, every post of the result is at least
\* as new as the post listed after it (creation time descending), whatever
\* order the listing and post responses arrived in.
C11_SortedByCreatedAtDescending ==
    (GapReturned /\ ~gap.out.threw) =>
        \A k \in 1 .. (Len(gap.out.value) - 1) :
            CreatedAtOf(gap.out.value[k]) >= CreatedAtOf(gap.out.value[k + 1])

\* three or more posts were fetched oldest first and returned newest first
C11_Witness ==
    /\ GapReturned /\ ~gap.out.threw
    /\ Len(gap.out.value) >= 3
    /\ CreatedAtOf(FetchedPosts[1]) < CreatedAtOf(FetchedPosts[2])
    /\ gap.out.value[1] = FetchedPosts[2]
    /\ \E k \in 2 .. Len(gap.out.value) : gap.out.value[k] = FetchedPosts[1]

\* the stored metadata blob of the post is not well-formed JSON
BlobCorrupt(id) == ~PostData(id).metadata.json
NoListingFailed == \A k \in DOMAIN gap.listed : ListingSucceeded(k)
\* a post built from the stored tuple of id around the given metadata
PostWithMetadata(id, metadata) ==
    [id |-> toString(id),
     creator |-> PostData(id).creator,
     tribeId |-> toString(PostData(id).tribeId),
     metadata |-> metadata,
     isGated |-> PostData(id).isGated,
     collectibleContract |-> PostData(id).collectibleContract,
     collectibleId |-> toString(PostData(id).collectibleId),
     isEncrypted |-> PostData(id).isEncrypted,
     accessSigner |-> PostData(id).accessSigner]

\* C12: getPost of a post whose stored blob is not well-formed JSON does not
\* throw: it returns the stored tuple's fields around the placeholder
\* metadata (title 'Error', type 'TEXT'); and when every ledger call answers,
\* getAllPosts over tribes listing such a post returns every listed post, the
\* placeholder one included.
C12_CorruptBlobDegrades ==
    /\ \A k \in DOMAIN gap.fetchPromises :
          LET pr == gap.fetchPromises[k]
          IN  (pr.state = "fulfilled" /\ BlobCorrupt(pr.index)) =>
                \E now \in Clock :
                    /\ GetPost(pr.postId, Answer(PostData(pr.index)), now)
                          = Returned(pr.value)
                    /\ pr.value.metadata.title = "Error"
                    /\ pr.value.metadata.type = "TEXT"
                    /\ pr.value = PostWithMetadata(pr.index,
                                                   PlaceholderMetadata(now))
    /\ (/\ GapReturned /\ NoListingFailed /\ NoPostFetchFailed
        /\ \E k \in DOMAIN gap.fetchPromises :
              BlobCorrupt(gap.fetchPromises[k].index)) =>
          /\ ~gap.out.threw
          /\ \A id \in PostIds : TimesReturned(id) = TimesListed(id)
          /\ \E n \in DOMAIN gap.out.value : \E id \in PostIds :
                /\ gap.out.value[n].id = toString(id)
                /\ BlobCorrupt(id)
                /\ gap.out.value[n].metadata.title = "Error"

\* three posts of one tribe, one of them with a corrupt blob: all three are
\* returned, the corrupt one as a placeholder
C12_Witness ==
    /\ GapReturned /\ ~gap.out.threw /\ NoListingFailed
    /\ Len(gap.out.value) = 3
    /\ \E n \in 1 .. 3 :
          /\ gap.out.value[n].id = toString(4)
          /\ gap.out.value[n].metadata.title = "Error"
          /\ \A j \in (1 .. 3) \ {n} :
                gap.out.value[j].metadata.title # "Error"

(***************************************************************************)
(* Properties of the post writers.                                         *)
(***************************************************************************)
GetPostAnswered == gp.status = "returned" /\ gp.resp.ok
\* the metadata object the writer built for the post that was read
WrittenMetadata == store[gp.index].written
Fields == {"title", "content", "type", "imageUrl", "createdAt"}

\* C13: a post written by createTextPost or createImagePost with metadata M
\* and read back by getPost decodes to M field for field (title, content,
\* type, imageUrl when given, createdAt); if the stored blob is corrupted the
\* decoded metadata is the placeholder form.
C13_MetadataRoundTrip ==
    GetPostAnswered =>
        LET decoded == gp.out.value.metadata
        IN  /\ ~gp.out.threw
            /\ gp.resp.data.metadata.json =>
                  /\ DOMAIN decoded = DOMAIN WrittenMetadata
                  /\ \A f \in Fields \cap DOMAIN WrittenMetadata :
                        decoded[f] = WrittenMetadata[f]
            /\ ~gp.resp.data.metadata.json =>
                  decoded = PlaceholderMetadata(gp.now)

\* an image post and a text post were written; the image post was read back
\* with its imageUrl
C13_Witness ==
    /\ GetPostAnswered
    /\ Len(store) = 2
    /\ \E k \in 1 .. 2 : store[k].written.type = "TEXT"
    /\ WrittenMetadata.type = "IMAGE"
    /\ gp.out.value.metadata.imageUrl = "ipfs://a"
    /\ gp.out.value.metadata.createdAt = WrittenMetadata.createdAt

\* a written post whose blob was damaged was read back as the placeholder
C13_WitnessCorrupted ==
    /\ GetPostAnswered
    /\ ~gp.resp.data.metadata.json
    /\ WrittenMetadata.title = "gm"
    /\ gp.out.value.metadata.title = "Error"

(***************************************************************************)
(* Properties of getAllTribes.                                             *)
(***************************************************************************)
GatReturned == gat.status = "returned"
GatCounted == gat.status \in {"awaitAll", "returned"} /\ ~gat.out.threw
TribeFetchFailed(i) ==
    \E k \in DOMAIN gat.tribePromises :
        gat.tribePromises[k].index = i /\ gat.tribePromises[k].failed
\* the position of tribe id i in the returned list (0 when it is not in it)
PositionOfTribe(i) ==
    IF \E n \in DOMAIN gat.out.value : gat.out.value[n].id = toString(i)
    THEN CHOOSE n \in DOMAIN gat.out.value : gat.out.value[n].id = toString(i)
    ELSE 0

\* C14: with count = the ledger's nextTribeId, getAllTribes fetches exactly
\* the indices 0 .. count-1, each once and none at count or above; an index
\* whose detail fetch failed is omitted and every other index is returned;
\* the returned tribes are in increasing id order.
C14_CounterBoundedTribes ==
    /\ GatCounted =>
          /\ gat.count = NextTribeIdGetter
          /\ Len(gat.tribePromises) = gat.count
          /\ \A k \in DOMAIN gat.tribePromises :
                gat.tribePromises[k].index = k - 1
    /\ (GatReturned /\ ~gat.out.threw) =>
          /\ \A i \in 0 .. (gat.count - 1) :
                IF TribeFetchFailed(i)
                THEN PositionOfTribe(i) = 0
                ELSE /\ PositionOfTribe(i) > 0
                     /\ gat.out.value[PositionOfTribe(i)] =
                           GetTribeDetails(toString(i),
                               Answer(TribeDetailsGetter(i))).value
          /\ Len(gat.out.value) =
                Cardinality({i \in 0 .. (gat.count - 1) : ~TribeFetchFailed(i)})
          /\ \A i, j \in 0 .. (gat.count - 1) :
                (i < j /\ PositionOfTribe(i) > 0 /\ PositionOfTribe(j) > 0)
                    => PositionOfTribe(i) < PositionOfTribe(j)

\* three tribes on the ledger, the fetch of tribe 1 failed: tribes 0 and 2
\* are returned in that order
C14_Witness ==
    /\ GatReturned /\ ~gat.out.threw
    /\ gat.count = 3
    /\ TribeFetchFailed(1)
    /\ Len(gat.out.value) = 2
    /\ gat.out.value[1].id = toString(0)
    /\ gat.out.value[2].id = toString(2)

(***************************************************************************)
(* Properties of the read functions under transport failure.               *)
(***************************************************************************)
\* C15: getEvent does not throw when the ledger answers with a sentinel
\* tuple, and the outcome it returns then differs from the outcome it
\* returns for the same id when the read fails in transport.
C15_NotFoundDistinctFromFailure ==
    (ge.status = "returned" /\ ge.resp.ok /\ TupleIsSentinel(ge.resp.data)) =>
        /\ ~ge.out.threw
        /\ ge.out # GetEvent(ge.id, Fail)

RdReturned(fn) == rd.status = "returned" /\ rd.fn = fn
\* the fail-soft outcomes of the readers other than getProfileByAddress
FailSoftEventReaders ==
    /\ (ge.status = "returned" /\ ~ge.resp.ok) => ge.out = Returned(Null)
    /\ (ex.status = "returned" /\ ~ex.resp.ok) => ex.out = Returned(FALSE)
    /\ ScanReturned => DOMAIN scan.events = 1 .. Len(scan.events)
    /\ RdReturned("getUserEvents") =>
          /\ ~rd.out.threw
          /\ DOMAIN rd.out.value = 1 .. Len(rd.out.value)
    /\ (RdReturned("getTicketBalance") /\ ~rd.resp.ok) =>
          rd.out = Returned(0)
    /\ (RdReturned("checkUsername") /\ ~rd.resp.ok) =>
          rd.out = Returned(FALSE)
\* the minted token ids the address owns, and those among the probed ids
\* 0 .. 9 whose ownerOf read the call could make use of
OwnTokens(address) ==
    {i \in 0 .. (Len(profiles) - 1) :
        ToLowerCase(OwnerOfGetter(i)) = ToLowerCase(address)}
ReadableOwnTokens ==
    (OwnTokens(rd.address) \cap TokenIndices) \ rd.ownerFailed

\* C16 as stated: for every transport failure of an underlying ledger call
\* getEvent returns null, eventExists false, getAllEvents and getUserEvents
\* a list, getTicketBalance 0, checkUsername false and getProfileByAddress
\* null; none throws.
C16_FailSoftReaders ==
    /\ FailSoftEventReaders
    /\ (/\ RdReturned("getProfileByAddress")
        /\ \/ ~rd.balanceResp.ok
           \/ rd.ownerFailed # {}
           \/ rd.profileFails) =>
          rd.out = Returned(Null)

\* C16 amended: none of the readers throws; getEvent returns null,
\* eventExists false, getAllEvents and getUserEvents a list, getTicketBalance
\* 0 and checkUsername false when their read fails; getProfileByAddress
\* returns null when its balanceOf read, the ownerOf read of the address's
\* own token or its getProfileByTokenId read fails, and skips a failed
\* ownerOf read of any other token, still returning the profile of a token
\* found among the ids 0 .. 9 it probes.
C16_FailSoftReadersSkipOwnerOf ==
    /\ FailSoftEventReaders
    /\ RdReturned("getProfileByAddress") =>
          /\ ~rd.out.threw
          /\ IF \/ ~ctx.provider
                \/ ~rd.balanceResp.ok
                \/ ReadableOwnTokens = {}
                \/ rd.profileFails
             THEN rd.out.value = Null
             ELSE /\ rd.out.value # Null
                  /\ \E i \in ReadableOwnTokens :
                        /\ rd.out.value.tokenId = toString(i)
                        /\ rd.out.value.username = ProfileByTokenIdGetter(i)[1]
                        /\ rd.out.value.metadata =
                              ParseMetadata(ProfileByTokenIdGetter(i)[2])
                  /\ rd.out.value.owner = rd.address

\* the ownerOf read of token 0 (another owner's) failed in transport and
\* the profile of token 1 was returned all the same
C16_Witness ==
    /\ RdReturned("getProfileByAddress")
    /\ rd.ownerFailed = {0}
    /\ rd.out.value # Null
    /\ rd.out.value.tokenId = toString(1)

(***************************************************************************)
(* Properties of the write actions of the providers.                       *)
(***************************************************************************)
WriteActions ==
    {"createNewTextPost", "createNewImagePost", "createNewTribe",
     "joinExistingTribe", "leaveTribe", "createNewEvent", "updateEvent",
     "purchaseEventTickets", "cancelUserEvent", "createProfile",
     "updateProfile"}

Invoked == act.status # "none" /\ act.name \in WriteActions
ThrewBeforeAnyCall ==
    act.status = "returned" /\ act.out = Thrown /\ calls = <<>>

\* C17: a write action invoked while the signer is absent or the wallet is
\* not connected throws to its caller, and it issues no ledger call, read or
\* write.
C17_NotSignedInNoWrite ==
    Invoked /\ (~act.closure.signer \/ ~act.closure.isConnected)
        => ThrewBeforeAnyCall

C17_Witness ==
    /\ act.name = "purchaseEventTickets"
    /\ act.closure.signer /\ ~act.closure.isConnected
    /\ ThrewBeforeAnyCall

NoWriteSubmitted == \A k \in DOMAIN calls : calls[k].kind # "write"
WriteSubmitted == \E k \in DOMAIN calls : calls[k].kind = "write"

OrganizerActions == {"createNewEvent", "updateEvent", "cancelUserEvent"}

\* C18: createNewEvent, updateEvent and cancelUserEvent invoked while the
\* cached organizer flag is false throw to the caller and submit no
\* transaction.
C18_WrongRoleNoWrite ==
    Invoked /\ act.name \in OrganizerActions /\ ~act.closure.isOrganizer
        => /\ act.status = "returned"
           /\ act.out = Thrown
           /\ NoWriteSubmitted

C18_Witness ==
    /\ act.name = "updateEvent"
    /\ act.closure.signer /\ act.closure.isConnected
    /\ act.closure.account # NoAccount
    /\ ~act.closure.isOrganizer
    /\ act.status = "returned" /\ act.out = Thrown /\ NoWriteSubmitted

TargetActions == {"updateEvent", "purchaseEventTickets", "cancelUserEvent"}

\* the action has passed its guard and finished the read of its target
TargetRead ==
    /\ act.name \in TargetActions
    /\ act.status \notin {"none", "reading"}
    /\ calls # <<>>

\* the event the action read back satisfies the action's preconditions
TargetOk ==
    /\ act.local.event # Null
    /\ IsValid(act.local.event)
    /\ CASE act.name = "updateEvent" ->
              /\ act.local.event.active
              /\ ToLowerCase(act.local.event.organizer)
                    = ToLowerCase(SignerAddress)
         [] act.name = "cancelUserEvent" ->
              ToLowerCase(act.local.event.organizer)
                  = ToLowerCase(act.closure.account)
         [] act.name = "purchaseEventTickets" -> act.local.event.active

ReportedFalse ==
    act.status = "returned" => ~act.out.threw /\ act.out.value = FALSE

\* C19: past their guard, updateEvent, cancelUserEvent and
\* purchaseEventTickets first read the event; a write is submitted only if
\* the event read back is valid and (updateEvent) active and organized by
\* the signer's address, (cancelUserEvent) organized by the current account,
\* (purchaseEventTickets) active; otherwise no write is submitted and the
\* action returns false.
C19_TargetCheckedBeforeWrite ==
    TargetRead =>
        /\ calls[1] = ReadCall("events")
        /\ WriteSubmitted => TargetOk
        /\ NoWriteSubmitted => ReportedFalse

C19_Witness ==
    /\ TargetRead
    /\ act.name = "cancelUserEvent"
    /\ act.local.event # Null
    /\ ToLowerCase(act.local.event.organizer)
          # ToLowerCase(act.closure.account)
    /\ act.status = "returned"
    /\ NoWriteSubmitted
    /\ act.out = Returned(FALSE)

\* an update is written for an event read back valid, active and organized
\* by the signer while the account is another one
C19_WitnessSubmitted ==
    /\ TargetRead
    /\ act.name = "updateEvent"
    /\ TargetOk
    /\ WriteSubmitted
    /\ act.closure.account = "0xdef2"

\* createProfile has passed its guard and checkUsername has answered
UsernameChecked ==
    /\ act.name = "createProfile"
    /\ act.status \notin {"none", "reading"}
    /\ calls # <<>>

\* another writer holds the username the action asked for
NameTakenByOtherWriter ==
    \E k \in DOMAIN profiles :
        /\ profiles[k].username = act.tx.username
        /\ profiles[k].owner = OtherWriter

\* C20: createProfile reads usernameExists before it submits; when the read
\* reports the name taken it throws without submitting the createProfile
\* transaction; when the read reports it free and another writer takes the
\* name before the write is confirmed, the returned action has thrown and
\* the cached profile is the one it was invoked with.
C20_UsernameRecheckedAdvisory ==
    UsernameChecked =>
        /\ calls[1] = ReadCall("usernameExists")
        /\ act.local.usernameExists =>
              /\ act.status = "returned"
              /\ act.out = Thrown
              /\ NoWriteSubmitted
        /\ (WriteSubmitted /\ NameTakenByOtherWriter
              /\ act.status = "returned") =>
              /\ act.out = Thrown
              /\ ctx.profile = act.closure.profile

C20_Witness ==
    /\ UsernameChecked
    /\ ~act.local.usernameExists
    /\ WriteSubmitted
    /\ NameTakenByOtherWriter
    /\ act.status = "returned"
    /\ act.out = Thrown
    /\ ctx.profile = act.closure.profile
    /\ ctx.profile # Null

\* the read reports the name taken and createProfile throws
C20_WitnessTaken ==
    /\ UsernameChecked
    /\ act.local.usernameExists
    /\ act.status = "returned"
    /\ act.out = Thrown
    /\ NoWriteSubmitted

\* without another writer the write is confirmed and the profile refreshed
C20_WitnessCreated ==
    /\ UsernameChecked
    /\ act.status = "returned"
    /\ ~act.out.threw
    /\ ctx.profile # Null
    /\ ctx.profile # act.closure.profile

\* the ledger reads issued after the write of the action
ReadAfterWrite ==
    \E k, j \in DOMAIN calls :
        k < j /\ calls[k].kind = "write" /\ calls[j].kind = "read"

\* C21: a write action whose transaction was confirmed has re-read the
\* ledger, by the refresh of the entity kind it changed, when it resolves to
\* its caller.
C21_ConfirmedWriteRefreshes ==
    (Invoked /\ act.status = "returned" /\ act.confirmed) => ReadAfterWrite

\* the actions other than joinExistingTribe refresh after a confirmed write
\* when the provider state of their closure lets the refresh run
C21_RefreshRan ==
    /\ Invoked /\ act.status = "returned" /\ act.confirmed
    /\ act.name = "leaveTribe"
    /\ ReadAfterWrite

\* joinExistingTribe resolves after its confirmed write without a read
C21_JoinResolvesWithoutRefresh ==
    /\ act.name = "joinExistingTribe"
    /\ act.status = "returned" /\ act.confirmed
    /\ ~ReadAfterWrite
    /\ ctx = act.closure
    /\ tribeLedger[1].memberCount # ctx.tribes[1].memberCount

WritesIssued == {k \in DOMAIN calls : calls[k].kind = "write"}
ReadsIssued == {k \in DOMAIN calls : calls[k].kind = "read"}

\* the action is inside its write utility or its own checks: the refresh
\* has not issued its reads
BeforeRefreshReads ==
    act.status \in {"reading", "submitting", "waiting", "refreshing"}

\* C22: an invocation hands at most one transaction to the ledger, whether
\* the submission or the confirmation fails or succeeds, and the read a
\* write function makes before its write is issued at most once.
C22_NoRetry ==
    Invoked =>
        /\ Cardinality(WritesIssued) <= 1
        /\ BeforeRefreshReads => Cardinality(ReadsIssued) <= 1

\* a reverted write: the action has returned with its single transaction
C22_Witness ==
    /\ Invoked
    /\ act.status = "returned"
    /\ ~act.confirmed
    /\ Cardinality(WritesIssued) = 1
    /\ act.name = "createNewTribe"
    /\ act.out = Thrown

\* a failed read of the event: updateEvent goes on to its refresh without
\* reading the event again
C22_WitnessFailedRead ==
    /\ act.name = "updateEvent"
    /\ act.status = "refreshing"
    /\ act.local # Null
    /\ act.local.event = Null
    /\ Cardinality(ReadsIssued) = 1
    /\ WritesIssued = {}

\* the write was handed to the signer and refused: the submission was
\* rejected or the confirmation reported a revert
WriteRefused ==
    /\ Invoked
    /\ WriteSubmitted
    /\ ~act.confirmed
    /\ act.status \in {"refreshing", "returned"}

ReturnsFalseActions ==
    {"updateProfile", "updateEvent", "purchaseEventTickets", "cancelUserEvent"}

RefusedWriteReported ==
    (WriteRefused /\ act.status = "returned") =>
        IF act.name \in ReturnsFalseActions
        THEN ~act.out.threw /\ act.out.value = FALSE
        ELSE act.out = Thrown

\* the cached state changes only in the step that ends a refresh, and a
\* refused write leaves the ledgers as they were
CachesOnlyRefreshed ==
    /\ ctx' # ctx => act.status = "refreshing" /\ act'.status = "returned"
    /\ (act.status \in {"submitting", "waiting"} /\ ~act'.confirmed) =>
          /\ ledger' = ledger
          /\ tribeLedger' = tribeLedger
          /\ store' = store

\* C23: when the write is refused, createNewTribe, createNewTextPost,
\* createNewImagePost, joinExistingTribe, leaveTribe, createNewEvent and
\* createProfile throw, and updateProfile, updateEvent, purchaseEventTickets
\* and cancelUserEvent return false; the cached tribes, posts, events and
\* profile change only by the result of a refresh.
C23_RefusedWriteNeverSucceeds ==
    /\ []RefusedWriteReported
    /\ [][CachesOnlyRefreshed]_vars

\* a reverted purchase: false is returned after the refresh re-read events
C23_Witness ==
    /\ WriteRefused
    /\ act.name = "purchaseEventTickets"
    /\ act.status = "returned"
    /\ act.out = Returned(FALSE)
    /\ ctx # act.closure

\* a refused createProfile throws and leaves the cached state as it was
C23_WitnessThrown ==
    /\ WriteRefused
    /\ act.name = "createProfile"
    /\ act.status = "returned"
    /\ act.out = Thrown
    /\ ctx = act.closure

\* the action reports a success of its write to its caller
ReportsSuccess ==
    /\ act.status = "returned"
    /\ WriteSubmitted
    /\ ~act.out.threw
    /\ act.name \in ReturnsFalseActions \cup {"createProfile"}
          => act.out.value = TRUE

\* while the write is being submitted or awaited, nothing is returned, no
\* identifier is extracted and no refresh read is issued; a success is only
\* reported for a confirmed write
NothingBeforeConfirmation ==
    /\ (Invoked /\ act.status \in {"submitting", "waiting"}) =>
          /\ act.out = Pending
          /\ act.result = Pending
          /\ ~act.confirmed
          /\ calls[Len(calls)].kind = "write"
    /\ (Invoked /\ ReportsSuccess) => act.confirmed
    /\ (Invoked /\ act.status = "refreshing" /\ ~act.result.threw
          /\ act.name \notin ReturnsFalseActions) => act.confirmed

\* the wait starts from the returned submission, the confirmation ends the
\* wait
SubmitThenWait ==
    /\ (act'.status = "waiting" /\ act.status # "waiting")
          => act.status = "submitting"
    /\ (act'.confirmed /\ ~act.confirmed) => act.status = "waiting"

\* C24: the confirmation wait starts only after the submission returned a
\* transaction handle, and before the confirmation has returned the
\* function neither returns success, nor extracts an identifier, nor
\* triggers the refresh.
C24_SubmitThenConfirm ==
    /\ []NothingBeforeConfirmation
    /\ [][SubmitThenWait]_vars

\* createNewEvent resolves with the identifier extracted from the receipt
\* of its confirmed transaction
C24_Witness ==
    /\ act.name = "createNewEvent"
    /\ act.status = "returned"
    /\ act.confirmed
    /\ ~act.out.threw
    /\ act.out.value = 2
    /\ ReadAfterWrite

(***************************************************************************)
(* Properties of the order in which the enumerations issue their reads.    *)
(***************************************************************************)
\* the by-index fetches of getAllEvents and of getAllTribes that have been
\* issued and have neither returned nor failed
OutstandingEventFetches ==
    {k \in DOMAIN scan.log : scan.log[k].outcome = "pending"}
OutstandingTribeFetches ==
    {k \in DOMAIN gat.tribePromises : gat.tribePromises[k].state = "pending"}

\* getAllEvents alone: one fetch at a time, issued in increasing index order
C25_EventsSequential ==
    /\ Cardinality(OutstandingEventFetches) <= 1
    /\ \A k \in DOMAIN scan.log :
          scan.log[k].outcome = "pending" => k = Len(scan.log)

\* C25: during getAllEvents and during getAllTribes at most one by-index
\* fetch is outstanding at any time.
C25_SequentialEnumeration ==
    /\ Cardinality(OutstandingEventFetches) <= 1
    /\ Cardinality(OutstandingTribeFetches) <= 1

\* getAllTribes has every index of a three-tribe ledger outstanding at once
C25_AllTribeFetchesOutstanding ==
    /\ gat.status = "awaitAll"
    /\ Len(gat.tribePromises) = MaxTribes
    /\ Cardinality(OutstandingTribeFetches) = MaxTribes

\* the per-tribe listing calls getAllPosts has issued, and those that have
\* returned or failed
ListingsIssued ==
    CASE gap.status = "none" -> 0
      [] gap.status = "listing" -> gap.i
      [] OTHER -> Len(gap.listed)
ListingsSettled == Len(gap.listed)

\* C26: in getAllPosts the listing call of a tribe is issued without waiting
\* for the listing call of the previous tribe: while a listing call is
\* outstanding, the listing calls of all tribes of tribeIds have been issued.
C26_ListingsIssuedConcurrently ==
    gap.status = "listing" => ListingsIssued = Len(gap.tribeIds)

\* what the loop does: one listing call outstanding at a time, while the
\* getPost calls of the tribes already listed are outstanding
C26_ListingsSequential ==
    /\ ListingsIssued - ListingsSettled <= 1
    /\ gap.status = "listing" => ListingsIssued = ListingsSettled + 1

C26_SecondListingWaits ==
    /\ gap.status = "listing"
    /\ Len(gap.tribeIds) >= 2
    /\ ListingsIssued = 1
    /\ ListingsSettled = 0

C26_FetchesOutstandingWhileListing ==
    /\ gap.status = "listing"
    /\ ListingsIssued = 2
    /\ \E k \in DOMAIN gap.fetchPromises : gap.fetchPromises[k].state = "pending"

\* the ids the listing reads of getAllPosts answer with, tribe after tribe in
\* the order of tribeIds
ListedPostIds(tribeIds, limit) ==
    LET cat[k \in 0 .. Len(tribeIds)] ==
            IF k = 0 THEN <<>>
            ELSE cat[k - 1] \o
                 [j \in DOMAIN PostsByTribeGetter(tribeIds[k], 0, limit).postIds |->
                     toString(PostsByTribeGetter(tribeIds[k], 0, limit).postIds[j])]
    IN  cat[Len(tribeIds)]

Occurrences(seq, x) == Cardinality({k \in DOMAIN seq : seq[k] = x})

IsPermutationOf(a, b) ==
    /\ Len(a) = Len(b)
    /\ \A k \in DOMAIN b : Occurrences(a, b[k]) = Occurrences(b, b[k])

\* getAllPosts returned and every listing read and every getPost answered
AllPostReadsSucceeded ==
    /\ gap.status = "returned"
    /\ ~gap.out.threw
    /\ \A k \in DOMAIN gap.listed : gap.listed[k] = "ok"

ReturnedPostIds == [k \in DOMAIN gap.out.value |-> gap.out.value[k].id]

\* C27: getAllPosts does not deduplicate: when all its reads succeed the posts
\* it returns are a permutation of the concatenation of the posts listed per
\* tribe, as many as the per-tribe listings hold together, and an id listed
\* under two tribes is returned twice.
C27_NoDeduplication ==
    AllPostReadsSucceeded =>
        /\ IsPermutationOf(ReturnedPostIds,
                           ListedPostIds(gap.tribeIds, gap.limit))
        /\ Len(gap.out.value) = Len(ListedPostIds(gap.tribeIds, gap.limit))

C27_Witness ==
    /\ AllPostReadsSucceeded
    /\ Len(gap.tribeIds) >= 2
    /\ \E j, k \in DOMAIN gap.out.value :
          /\ j # k
          /\ gap.out.value[j].id = gap.out.value[k].id

(***************************************************************************)
(* Properties of getUserEvents.                                            *)
(***************************************************************************)
GetUserEventsReturned == rd.status = "returned" /\ rd.fn = "getUserEvents"

\* the positions of the getAllEvents result whose organizer is the user,
\* letter case aside
OrganizedBy(userAddress) ==
    {k \in DOMAIN scan.events :
        ToLowerCase(scan.events[k].organizer) = ToLowerCase(userAddress)}

\* C28: getUserEvents(userAddress, maxEvents) returns exactly the events of
\* getAllEvents(maxEvents) whose organizer equals userAddress up to letter
\* case, in the same relative order; it holds no more than maxEvents events
\* and nothing the getAllEvents scan did not collect.
C28_UserEventsAreFilteredAllEvents ==
    GetUserEventsReturned =>
        /\ scan.status = "returned"
        /\ ~rd.out.threw
        /\ Len(rd.out.value) = Cardinality(OrganizedBy(rd.userAddress))
        /\ \A k \in OrganizedBy(rd.userAddress) :
              rd.out.value[Cardinality({j \in OrganizedBy(rd.userAddress) :
                                           j <= k})] = scan.events[k]
        /\ Len(rd.out.value) <= scan.maxEvents

C28_Witness ==
    /\ GetUserEventsReturned
    /\ rd.userAddress = "0xabc1"
    /\ Len(scan.events) = 2
    /\ Len(rd.out.value) = 1

(***************************************************************************)
(* Properties of createNewTribe and of the CreateTribeForm.                *)
(***************************************************************************)
CreateNewTribeSubmitted == act.name = "createNewTribe" /\ WriteSubmitted

\* C29: createNewTribe(name, description, joinType) submits a createTribe
\* transaction that carries the joinType it was passed, whichever of Open,
\* Approval, Invite and NFTGated that is.
C29_JoinTypeSubmitted ==
    CreateNewTribeSubmitted => act.tx.joinType = act.args[3]

\* what the code does: the transaction carries JoinType.Open whatever the
\* caller passed
C29_AlwaysOpen ==
    CreateNewTribeSubmitted => act.tx.joinType = JoinType.Open

C29_ApprovalSubmittedAsOpen ==
    /\ CreateNewTribeSubmitted
    /\ act.args[3] = JoinType.Approval
    /\ act.tx.joinType = JoinType.Open
    /\ act.confirmed

\* the createNewTribe calls of the form that have not settled
PendingSubmits == {k \in DOMAIN form.started : form.started[k].state = "pending"}

\* isSubmitting is true exactly while a createNewTribe call of the form is
\* outstanding, there is never more than one, and no call was started with
\* an empty name or description
OneSubmitAtATime ==
    /\ Cardinality(PendingSubmits) <= 1
    /\ form.isSubmitting <=> PendingSubmits # {}
    /\ \A k \in DOMAIN form.started :
          form.started[k].args[1] # "" /\ form.started[k].args[2] # ""

\* the steps of the form: a call is started only by a submit of filled fields
\* with no call outstanding; a submit with an empty field sets the error and
\* starts no call; success clears the fields, failure keeps them
FormSteps ==
    /\ Len(form'.started) > Len(form.started) =>
          /\ ~form.isSubmitting /\ PendingSubmits = {}
          /\ form.name # "" /\ form.description # ""
          /\ form'.isSubmitting /\ form'.error = NoError
          /\ form'.started[Len(form'.started)].args
                = <<form.name, form.description, form.joinType>>
    /\ (form.name = "" \/ form.description = "") =>
          Len(form'.started) = Len(form.started)
    /\ (form'.error = RequiredMessage /\ form.error # RequiredMessage) =>
          /\ form.name = "" \/ form.description = ""
          /\ form'.started = form.started /\ ~form'.isSubmitting
    /\ \A k \in DOMAIN form.started :
          /\ (form.started[k].state = "pending"
                /\ form'.started[k].state = "resolved") =>
                /\ form'.name = "" /\ form'.description = ""
                /\ form'.joinType = JoinType.Open
                /\ ~form'.isSubmitting /\ form'.error = form.error
          /\ (form.started[k].state = "pending"
                /\ form'.started[k].state = "rejected") =>
                /\ form'.name = form.name
                /\ form'.description = form.description
                /\ form'.joinType = form.joinType
                /\ ~form'.isSubmitting /\ form'.error = FailedMessage

\* C30: the CreateTribeForm does not submit twice: isSubmitting is true from
\* a valid submit until createNewTribe settles and no second call can be
\* started meanwhile; isSubmitting is false again after success and after
\* failure; the fields are cleared only on success; a submit with an empty
\* name or description sets the error and issues no call.
C30_NoDoubleSubmission == []OneSubmitAtATime /\ [][FormSteps]_vars

C30_Witness ==
    /\ Len(form.started) = 2
    /\ form.started[1].state = "rejected"
    /\ form.started[2].state = "pending"
    /\ form.isSubmitting
    /\ form.error = NoError

C30_WitnessEmptyField ==
    /\ form.error = RequiredMessage
    /\ form.started = <<>>
    /\ ~form.isSubmitting

C30_WitnessCleared ==
    /\ Len(form.started) = 1
    /\ form.started[1].state = "resolved"
    /\ form.started[1].args[3] = JoinType.Approval
    /\ form.name = "" /\ form.description = ""
    /\ form.joinType = JoinType.Open
    /\ ~form.isSubmitting

(***************************************************************************)
(* Properties of the providers under wallet changes and overlapping calls. *)
(***************************************************************************)
InFlight(fn) == {k \in DOMAIN rf.ops : rf.ops[k].fn = fn}

\* a call of the kind leaves the calls in flight in this step
Completes(fn) ==
    \E k \in InFlight(fn) : rf'.ops = RemoveAt(rf.ops, k)
CompletesFor(fn, accounts) ==
    \E k \in InFlight(fn) :
        rf.ops[k].account \in accounts /\ rf'.ops = RemoveAt(rf.ops, k)

\* every event of sub is an event of all, with the same fields
SubList(sub, all) ==
    \A j \in DOMAIN sub : \E k \in DOMAIN all : all[k] = sub[j]

UserEventsWithinAllEvents ==
    /\ SubList(ctx.userEvents, ctx.allEvents)
    /\ \A j \in DOMAIN ctx.userEvents :
          ToLowerCase(ctx.userEvents[j].organizer) = ToLowerCase(ctx.account)

\* C31: when a refreshEvents call of a connected account completes, every
\* event of the cached userEvents is in the cached allEvents with the same
\* fields and is organized by the current account, whatever was written or
\* failed between its two scans.
C31_UserEventsSubListOfAllEvents ==
    [][CompletesFor("refreshEvents", WalletAccounts)
          => UserEventsWithinAllEvents']_vars

C31_EventOutsideAllEvents ==
    /\ InFlight("refreshEvents") = {}
    /\ ctx.account # NoAccount
    /\ \E j \in DOMAIN ctx.userEvents :
          /\ ToLowerCase(ctx.userEvents[j].organizer) = ToLowerCase(ctx.account)
          /\ \A k \in DOMAIN ctx.allEvents : ctx.allEvents[k] # ctx.userEvents[j]

\* C33: whenever no checkOrganizerRole call is in flight, the cached
\* organizer flag is true only if the ledger grants the organizer role to the
\* account that is connected now; a role read for a previous account never
\* lets createNewEvent pass its role gate.
C33_OrganizerFlagOfCurrentAccount ==
    (InFlight("checkOrganizerRole") = {} /\ ctx.isOrganizer) =>
        /\ ctx.account # NoAccount
        /\ HasRoleGetter(ctx.account)

\* the second account, which holds no role, passes the gate of createNewEvent
C33_GatePassedOnPreviousRole ==
    /\ InFlight("checkOrganizerRole") = {}
    /\ ctx.account = "0xdEf2"
    /\ ~HasRoleGetter(ctx.account)
    /\ OrganizerConnected

\* the flag outlives the disconnect
C33_FlagAfterDisconnect ==
    /\ InFlight("checkOrganizerRole") = {}
    /\ ctx.account = NoAccount
    /\ ctx.isOrganizer

ProfileOfCurrentAccount ==
    IF ctx.profile = Null THEN TRUE
    ELSE /\ ctx.account # NoAccount
         /\ ToLowerCase(ctx.profile.owner) = ToLowerCase(ctx.account)

\* C32: whenever no refreshProfile call is in flight, the cached profile is
\* null or is owned by the account that is connected now, whatever the order
\* of account switches, disconnects and completions; after a disconnect it
\* is null.
C32_ProfileOfCurrentAccount ==
    InFlight("refreshProfile") = {} => ProfileOfCurrentAccount

\* the profile of the first account is cached while the second is connected
C32_ProfileOfPreviousAccount ==
    /\ InFlight("refreshProfile") = {}
    /\ ctx.account = "0xdEf2"
    /\ ctx.profile # Null
    /\ ctx.profile.owner = "0xAbC1"

\* the profile outlives the disconnect
C32_ProfileAfterDisconnect ==
    /\ InFlight("refreshProfile") = {}
    /\ ctx.account = NoAccount
    /\ ctx.profile # Null

\* the call at position k of the calls in flight resumes in this step
Resumes(k) ==
    \/ rf'.ops = RemoveAt(rf.ops, k)
    \/ /\ Len(rf'.ops) = Len(rf.ops)
       /\ rf'.ops[k] # rf.ops[k]
       /\ \A j \in DOMAIN rf.ops : j # k => rf'.ops[j] = rf.ops[j]

\* the most recently started refreshEvents call has set allEvents
NewestHasFetched ==
    \A j \in InFlight("refreshEvents") :
        rf.ops[j].newest => rf.ops[j].stage # "getAllEvents"

\* a refreshEvents call started before the newest one sets allEvents after
\* the newest one has
OlderRefreshSetsAllEvents ==
    /\ NewestHasFetched
    /\ \E k \in InFlight("refreshEvents") :
          /\ ~rf.ops[k].newest
          /\ rf.ops[k].stage = "getAllEvents"
          /\ Resumes(k)

\* C34: when refreshes of one kind overlap, the cached list ends as the list
\* fetched by the refresh that started last: once that refresh has set the
\* list, a refresh started before it does not replace it with its own.
C34_NewestRefreshWins ==
    [][OlderRefreshSetsAllEvents => ctx.allEvents' = ctx.allEvents]_vars

\* a refreshEvents call resumes from its awaited getAllEvents in this step
ResumesFromGetAllEvents ==
    \E k \in InFlight("refreshEvents") :
        rf.ops[k].stage = "getAllEvents" /\ Resumes(k)

\* what the step leaves when the reads answered: the events of the ledger
\* and no error; and when a read failed: the list as it was and the error
ReadSucceededOrErrorShown ==
    \/ /\ ctx'.allEvents = GetAllEvents({}, DefaultMaxEvents).value
       /\ ctx'.eventsError = NoError
    \/ /\ ctx'.allEvents = ctx.allEvents
       /\ ctx'.eventsError # NoError

\* C35 (the outcome of a refresh): when the awaited read of a refresh
\* returns, either the read succeeded, the list is the one read and the
\* error field is null, or the read failed, the error field is set and the
\* cached list is left as it was.
C35_FailedReadKeepsListAndSetsError ==
    [][ResumesFromGetAllEvents => ReadSucceededOrErrorShown]_vars

\* C35 (termination), for refreshProfile: a refresh in flight leads to a
\* state with the loading flag cleared, provided the awaited reads return
C35_LoadingCleared ==
    (InFlight("refreshProfile") # {}) ~> ~rf.loading

FairSpecProfileProvider ==
    SpecProfileProvider /\ WF_vars(ProfileFetched)

\* the failed scan wiped the cached events and no error is shown
C35_ListWipedWithoutError ==
    /\ InFlight("refreshEvents") = {}
    /\ ~rf.loading
    /\ ctx.allEvents = <<>>
    /\ ctx.eventsError = NoError
    /\ GetAllEvents({}, DefaultMaxEvents).value # <<>>

(***************************************************************************)
(* Properties of getProfileByAddress on ledgers of any size.               *)
(***************************************************************************)
\* none of the reads the call issued failed
NoIssuedReadFailed ==
    /\ rd.balanceResp.ok
    /\ \A i \in rd.ownerOfCalls : i < Len(profiles) /\ i \notin rd.ownerFailed
    /\ ~rd.profileFails

\* the ownerOf read of token id i failed: in transport, or the id is not minted
OwnerOfFailed(i) == i \in rd.ownerFailed \/ i >= Len(profiles)

\* C36: getProfileByAddress returns a profile for every address that owns a
\* profile token: when balanceOf(address) is greater than 0 and no read
\* fails, the result is non-null and its tokenId is a token whose ownerOf
\* equals the address case-insensitively; when balanceOf is 0 the result is
\* null and no ownerOf read is issued; a failing ownerOf read of one token id
\* is skipped and the next id is read.
C36_ProfileOfEveryOwner ==
    (RdReturned("getProfileByAddress") /\ ctx.provider) =>
        /\ (NoIssuedReadFailed /\ rd.balanceResp.data > 0) =>
              /\ rd.out.value # Null
              /\ \E i \in OwnTokens(rd.address) :
                    rd.out.value.tokenId = toString(i)
        /\ (rd.balanceResp.ok /\ rd.balanceResp.data = 0) =>
              /\ rd.out.value = Null
              /\ rd.ownerOfCalls = {}
        /\ \A i \in rd.ownerOfCalls :
              (OwnerOfFailed(i) /\ i + 1 < TokenScanLimit) =>
                  (i + 1) \in rd.ownerOfCalls

\* carol owns token 10: balanceOf answers 1, the ownerOf reads of the ids
\* 0 .. 9 all answer, and the call returns null
C36_OwnerBeyondProbedIds ==
    /\ RdReturned("getProfileByAddress") /\ ctx.provider
    /\ rd.address = "0x9F9f"
    /\ rd.balanceResp = Answer(1)
    /\ rd.ownerOfCalls = TokenIndices
    /\ NoIssuedReadFailed
    /\ OwnTokens(rd.address) = {TokenScanLimit}
    /\ rd.out = Returned(Null)

\* the parts of C36 the code keeps on every ledger: no ownerOf read without
\* a balance, a failed ownerOf read is skipped, and a profile returned is
\* that of a token of the address
C36_SearchWithinProbedIds ==
    (RdReturned("getProfileByAddress") /\ ctx.provider) =>
        /\ (NoIssuedReadFailed /\ rd.balanceResp.data > 0
               /\ OwnTokens(rd.address) \cap TokenIndices # {}) =>
              /\ rd.out.value # Null
              /\ \E i \in OwnTokens(rd.address) :
                    rd.out.value.tokenId = toString(i)
        /\ (rd.balanceResp.ok /\ rd.balanceResp.data = 0) =>
              /\ rd.out.value = Null
              /\ rd.ownerOfCalls = {}
        /\ \A i \in rd.ownerOfCalls :
              (OwnerOfFailed(i) /\ i + 1 < TokenScanLimit) =>
                  (i + 1) \in rd.ownerOfCalls

\* the lower-case address of alice is given her profile of token 1 after the
\* ownerOf read of token 0 failed and was skipped
C36_SkippedReadThenFound ==
    /\ RdReturned("getProfileByAddress")
    /\ rd.address = "0xabc1"
    /\ rd.ownerFailed = {0}
    /\ rd.ownerOfCalls = {0, 1}
    /\ rd.out.value # Null
    /\ rd.out.value.tokenId = toString(1)

====
